---- MODULE Spec2Model ----
(***************************************************************************)
(* A model of sfkleach/roll: the fancy-dice registry and its loader, the   *)
(* dice-notation parser and the roll engine of internal/dice/dice.go, the   *)
(* program runs of main.go and the window of internal/gui.                 *)
(*                                                                         *)
(* A Go string is a sequence of one-character strings; a code point that   *)
(* is not ASCII is written by its name ("U+2660" is the spade).  An error  *)
(* is a record holding the format string of the message and its arguments, *)
(* and Nil is the nil error.                                               *)
(***************************************************************************)
EXTENDS Integers, Sequences, FiniteSets, TLC

VARIABLES
    fancyDiceValues,  \* the package-level registry: key -> <<FancyDieValue>>
    notation,         \* the expression the user typed, as tokens
    parsed,           \* what ParseDiceNotation returned for it, or None
    parseValues,      \* the registry entries ParseDiceNotation read, or None
    rolled,           \* what DiceSet.Roll returned for parsed.ds, or None
    rollValues,       \* the registry entries DiceSet.Roll read, or None
    loadErr,          \* what the last LoadCustomFancyDice returned, or None
    loaded,           \* [files]: the files the last LoadCustomFancyDice read, or None
    sample,           \* a call of selectWithoutReplacement: k, n, the draws and the result
    main,             \* a run of main(): its flags, position, exit status and output, or None
    gui,              \* the App of the window: sort order, last result and the two cards, or None
    flagsIn           \* a call of parseFlagsFromInput: the input and what it returned, or None

vars == <<fancyDiceValues, notation, parsed, parseValues, rolled, rollValues, loadErr,
          loaded, sample, main, gui, flagsIn>>

None == [none |-> TRUE]
Nil == [fmt |-> "nil", args |-> <<>>]
Errorf(f, a) == [fmt |-> f, args |-> a]

---------------------------------------------------------------------------
(* strings, strconv, fmt                                                   *)

Digits == <<"0", "1", "2", "3", "4", "5", "6", "7", "8", "9">>

IsDigit(c) == \E i \in 1..10 : Digits[i] = c

DigitValue(c) == (CHOOSE i \in 1..10 : Digits[i] = c) - 1

IsSpace(c) == c \in {" ", "\t"}

AllDigits(s) == \A i \in 1..Len(s) : IsDigit(s[i])

RECURSIVE ParseUint(_)
ParseUint(s) ==
    IF s = <<>> THEN 0
    ELSE 10 * ParseUint(SubSeq(s, 1, Len(s) - 1)) + DigitValue(s[Len(s)])

\* strconv.Atoi: an optional sign, then one or more decimal digits.
Atoi(s) ==
    LET signed == s # <<>> /\ s[1] \in {"+", "-"}
        body == IF signed THEN Tail(s) ELSE s
    IN  IF body = <<>> \/ ~AllDigits(body)
        THEN [err |-> TRUE, n |-> 0]
        ELSE [err |-> FALSE,
              n |-> IF signed /\ s[1] = "-" THEN 0 - ParseUint(body) ELSE ParseUint(body)]

RECURSIVE FormatUint(_)
FormatUint(n) ==
    IF n < 10 THEN <<Digits[n + 1]>>
    ELSE FormatUint(n \div 10) \o <<Digits[(n % 10) + 1]>>

\* fmt.Sprintf("%d", n)
Itoa(n) == IF n < 0 THEN <<"-">> \o FormatUint(0 - n) ELSE FormatUint(n)

RECURSIVE TrimLeft(_)
TrimLeft(s) == IF s # <<>> /\ IsSpace(s[1]) THEN TrimLeft(Tail(s)) ELSE s

RECURSIVE TrimRight(_)
TrimRight(s) ==
    IF s # <<>> /\ IsSpace(s[Len(s)]) THEN TrimRight(SubSeq(s, 1, Len(s) - 1)) ELSE s

TrimSpace(s) == TrimRight(TrimLeft(s))

HasPrefix(s, p) == Len(s) >= Len(p) /\ SubSeq(s, 1, Len(p)) = p

\* strings.ReplaceAll for a one-character old and new.
ReplaceAll(s, old, new) == [i \in 1..Len(s) |-> IF s[i] = old THEN new ELSE s[i]]

\* strings.Split(s, sep) for a one-character sep: always at least one part.
RECURSIVE Split(_, _)
Split(s, sep) ==
    IF \A i \in 1..Len(s) : s[i] # sep THEN <<s>>
    ELSE LET i == CHOOSE j \in 1..Len(s) : s[j] = sep /\ \A h \in 1..(j - 1) : s[h] # sep
         IN  <<SubSeq(s, 1, i - 1)>> \o Split(SubSeq(s, i + 1, Len(s)), sep)

\* strings.Fields: the maximal runs of non-space characters.
RECURSIVE Fields(_)
Fields(s) ==
    LET t == TrimLeft(s)
    IN  IF t = <<>> THEN <<>>
        ELSE IF \A i \in 1..Len(t) : ~IsSpace(t[i]) THEN <<t>>
        ELSE LET i == CHOOSE j \in 1..Len(t) : IsSpace(t[j]) /\ \A h \in 1..(j - 1) : ~IsSpace(t[h])
             IN  <<SubSeq(t, 1, i - 1)>> \o Fields(SubSeq(t, i + 1, Len(t)))

\* regexp `^(\d*)X(\d+)$` for the letter X: the submatches, or no match.
FindStringSubmatch(letter, group) ==
    IF \E i \in 1..Len(group) :
          /\ group[i] = letter
          /\ AllDigits(SubSeq(group, 1, i - 1))
          /\ i < Len(group)
          /\ AllDigits(SubSeq(group, i + 1, Len(group)))
    THEN LET i == CHOOSE j \in 1..Len(group) : group[j] = letter
         IN  [match |-> TRUE, count |-> SubSeq(group, 1, i - 1),
              num |-> SubSeq(group, i + 1, Len(group))]
    ELSE [match |-> FALSE, count |-> <<>>, num |-> <<>>]

---------------------------------------------------------------------------
(* The registry of fancy dice                                              *)

FancyDieValue(name, value) == [Name |-> name, Value |-> value]

generateZodiacValues ==
    LET zodiacSigns == <<"U+2648", "U+2649", "U+264A", "U+264B", "U+264C", "U+264D",
                         "U+264E", "U+264F", "U+2650", "U+2651", "U+2652", "U+2653">>
    IN  [i \in 1..Len(zodiacSigns) |-> FancyDieValue(<<zodiacSigns[i]>>, i)]

generatePlayingCardValues ==
    LET suits == <<"U+2663", "U+2666", "U+2665", "U+2660">>
        ranks == << <<"2">>, <<"3">>, <<"4">>, <<"5">>, <<"6">>, <<"7">>, <<"8">>,
                    <<"9">>, <<"1", "0">>, <<"J">>, <<"Q">>, <<"K">>, <<"A">> >>
    IN  [c \in 1..(Len(suits) * Len(ranks)) |->
            FancyDieValue(ranks[((c - 1) % Len(ranks)) + 1]
                              \o <<suits[((c - 1) \div Len(ranks)) + 1]>>, c)]

StandardFancyDiceValues ==
    (<<"f", "2">> :> << FancyDieValue(<<"h", "e", "a", "d", "s">>, 1),
                        FancyDieValue(<<"t", "a", "i", "l", "s">>, 0) >>)
 @@ (<<"f", "4">> :> << FancyDieValue(<<"U+2660">>, 4), FancyDieValue(<<"U+2665">>, 3),
                        FancyDieValue(<<"U+2666">>, 2), FancyDieValue(<<"U+2663">>, 1) >>)
 @@ (<<"f", "6">> :> [i \in 1..6 |->
                        FancyDieValue(<<Digits[i + 1],
                            <<"U+2680", "U+2681", "U+2682", "U+2683", "U+2684", "U+2685">>[i]>>, i)])
 @@ (<<"f", "7">> :> << FancyDieValue(<<"M", "o", "n">>, 1), FancyDieValue(<<"T", "u", "e">>, 2),
                        FancyDieValue(<<"W", "e", "d">>, 3), FancyDieValue(<<"T", "h", "u">>, 4),
                        FancyDieValue(<<"F", "r", "i">>, 5), FancyDieValue(<<"S", "a", "t">>, 6),
                        FancyDieValue(<<"S", "u", "n">>, 7) >>)
 @@ (<<"f", "1", "2">> :> generateZodiacValues)
 @@ (<<"f", "1", "3">> :> << FancyDieValue(<<"A">>, 4), FancyDieValue(<<"2">>, 0),
                             FancyDieValue(<<"3">>, 0), FancyDieValue(<<"4">>, 0),
                             FancyDieValue(<<"5">>, 0), FancyDieValue(<<"6">>, 0),
                             FancyDieValue(<<"7">>, 0), FancyDieValue(<<"8">>, 0),
                             FancyDieValue(<<"9">>, 0), FancyDieValue(<<"1", "0">>, 0),
                             FancyDieValue(<<"J">>, 1), FancyDieValue(<<"Q">>, 2),
                             FancyDieValue(<<"K">>, 3) >>)
 @@ (<<"f", "5", "2">> :> generatePlayingCardValues)

\* `values, exists := m[key]`
Exists(m, key) == key \in DOMAIN m

---------------------------------------------------------------------------
(* The loader of custom fancy dice                                         *)

\* parseFancyDiceLine: [err, value]
parseFancyDiceLine(line, defaultValue) ==
    LET parts == Split(line, ",")
    IN  IF Len(parts) = 1
        THEN LET name == TrimSpace(parts[1])
             IN  IF name = <<>>
                 THEN [err |-> Errorf("empty name", <<>>), value |-> FancyDieValue(<<>>, 0)]
                 ELSE [err |-> Nil, value |-> FancyDieValue(name, defaultValue)]
        ELSE IF Len(parts) = 2
        THEN LET name == TrimSpace(parts[1])
                 valueStr == TrimSpace(parts[2])
                 value == Atoi(valueStr)
             IN  IF name = <<>>
                 THEN [err |-> Errorf("empty name", <<>>), value |-> FancyDieValue(<<>>, 0)]
                 ELSE IF value.err
                 THEN [err |-> Errorf("invalid value '%s': must be an integer", <<valueStr>>),
                       value |-> FancyDieValue(<<>>, 0)]
                 ELSE [err |-> Nil, value |-> FancyDieValue(name, value.n)]
        ELSE [err |-> Errorf("invalid format: expected 'name' or 'name, value'", <<>>),
              value |-> FancyDieValue(<<>>, 0)]

\* scanLines giving a line without a value the number of the line in the file.
RECURSIVE scanLinesByLineNumber(_, _, _)
scanLinesByLineNumber(lines, lineNum, values) ==
    IF lineNum > Len(lines) THEN [err |-> Nil, values |-> values]
    ELSE LET line == TrimSpace(lines[lineNum])
         IN  IF line = <<>> \/ HasPrefix(line, <<"#">>)
             THEN scanLinesByLineNumber(lines, lineNum + 1, values)
             ELSE LET r == parseFancyDiceLine(line, lineNum)
                  IN  IF r.err # Nil
                      THEN [err |-> Errorf("line %d: %v", <<lineNum, r.err>>), values |-> values]
                      ELSE scanLinesByLineNumber(lines, lineNum + 1, Append(values, r.value))

\* The scanner loop of loadSingleFancyDiceFile over lines[lineNum..]: [err, values].
RECURSIVE scanLines(_, _, _)
scanLines(lines, lineNum, values) ==
    IF lineNum > Len(lines) THEN [err |-> Nil, values |-> values]
    ELSE LET line == TrimSpace(lines[lineNum])
         IN  IF line = <<>> \/ HasPrefix(line, <<"#">>)
             THEN scanLines(lines, lineNum + 1, values)
             ELSE LET r == parseFancyDiceLine(line, Len(values) + 1)
                  IN  IF r.err # Nil
                      THEN [err |-> Errorf("line %d: %v", <<lineNum, r.err>>), values |-> values]
                      ELSE scanLines(lines, lineNum + 1, Append(values, r.value))

\* loadSingleFancyDiceFile appending the values to the list the registry holds.
loadSingleFancyDiceFileAppend(registry, lines) ==
    LET scan == scanLines(lines, 1, <<>>)
    IN  IF scan.err # Nil THEN [err |-> scan.err, registry |-> registry]
        ELSE IF Len(scan.values) = 0
        THEN [err |-> Errorf("file contains no valid fancy dice values", <<>>),
              registry |-> registry]
        ELSE LET diceType == <<"f">> \o Itoa(Len(scan.values))
             IN  [err |-> Nil,
                  registry |-> [k \in DOMAIN registry \cup {diceType} |->
                                   IF k # diceType THEN registry[k]
                                   ELSE IF k \in DOMAIN registry THEN registry[k] \o scan.values
                                   ELSE scan.values]]

\* loadSingleFancyDiceFile storing the values read before a line that fails.
loadSingleFancyDiceFilePartial(registry, lines) ==
    LET scan == scanLines(lines, 1, <<>>)
        diceType == <<"f">> \o Itoa(Len(scan.values))
        stored == [k \in DOMAIN registry \cup {diceType} |->
                      IF k = diceType THEN scan.values ELSE registry[k]]
    IN  IF scan.err # Nil
        THEN [err |-> scan.err,
              registry |-> IF Len(scan.values) = 0 THEN registry ELSE stored]
        ELSE IF Len(scan.values) = 0
        THEN [err |-> Errorf("file contains no valid fancy dice values", <<>>),
              registry |-> registry]
        ELSE [err |-> Nil, registry |-> stored]

\* loadSingleFancyDiceFile on the lines of an opened file: [err, registry].
loadSingleFancyDiceFile(registry, lines) ==
    LET scan == scanLines(lines, 1, <<>>)
    IN  IF scan.err # Nil THEN [err |-> scan.err, registry |-> registry]
        ELSE IF Len(scan.values) = 0
        THEN [err |-> Errorf("file contains no valid fancy dice values", <<>>),
              registry |-> registry]
        ELSE LET diceType == <<"f">> \o Itoa(Len(scan.values))
             IN  [err |-> Nil,
                  registry |-> [k \in DOMAIN registry \cup {diceType} |->
                                   IF k = diceType THEN scan.values ELSE registry[k]]]

\* The loop of LoadCustomFancyDice over the files the glob matched, from file i on.
RECURSIVE loadFiles(_, _, _)
loadFiles(registry, files, i) ==
    IF i > Len(files) THEN [err |-> Nil, registry |-> registry]
    ELSE LET r == loadSingleFancyDiceFile(registry, files[i])
         IN  IF r.err # Nil
             THEN [err |-> Errorf("error loading file '%s': %v", <<i, r.err>>),
                   registry |-> r.registry]
             ELSE loadFiles(r.registry, files, i + 1)

---------------------------------------------------------------------------
(* The notation parser                                                     *)

\* The marker the parser adds to (or subtracts from) Sides for an exclusive die.
ExclusiveOffset == 1000

NewDie(sides) == sides

\* `for i := 0; i < count; i++ { dice = append(dice, die) }`
appendDice(count, die) == [i \in 1..count |-> die]

\* parseCount taking a count of zero.
parseCountZeroOk(countStr) ==
    IF countStr = <<>> THEN [err |-> Nil, count |-> 1]
    ELSE LET c == Atoi(countStr)
         IN  IF c.err \/ c.n < 0
             THEN [err |-> Errorf("invalid dice count: %s", <<countStr>>), count |-> 0]
             ELSE [err |-> Nil, count |-> c.n]

\* The count prefix shared by the three fancy/exclusive parsers: [err, count].
parseCount(countStr) ==
    IF countStr = <<>> THEN [err |-> Nil, count |-> 1]
    ELSE LET c == Atoi(countStr)
         IN  IF c.err \/ c.n <= 0
             THEN [err |-> Errorf("invalid dice count: %s", <<countStr>>), count |-> 0]
             ELSE [err |-> Nil, count |-> c.n]

\* parseFancyDice without the lookup of the type in the registry.
parseFancyDiceNoLookup(registry, countStr, typeStr) ==
    LET c == parseCount(countStr)
    IN  IF c.err # Nil THEN [err |-> c.err, dice |-> <<>>]
        ELSE [err |-> Nil, dice |-> appendDice(c.count, 0 - Atoi(typeStr).n)]

\* parseFancyDice: [err, dice]
parseFancyDice(registry, countStr, typeStr) ==
    LET c == parseCount(countStr)
        fancyType == <<"f">> \o typeStr
    IN  IF c.err # Nil THEN [err |-> c.err, dice |-> <<>>]
        ELSE IF ~Exists(registry, fancyType)
        THEN [err |-> Errorf("unsupported fancy dice type: %s", <<fancyType>>), dice |-> <<>>]
        ELSE [err |-> Nil, dice |-> appendDice(c.count, 0 - Atoi(typeStr).n)]

\* parseExclusiveRegularDice without the check of the count against the sides.
parseExclusiveRegularDiceUnchecked(countStr, sidesStr) ==
    LET c == parseCount(countStr)
        sides == Atoi(sidesStr)
    IN  IF c.err # Nil THEN [err |-> c.err, dice |-> <<>>]
        ELSE IF sides.err \/ sides.n <= 0
        THEN [err |-> Errorf("invalid dice sides: %s", <<sidesStr>>), dice |-> <<>>]
        ELSE [err |-> Nil, dice |-> appendDice(c.count, sides.n + ExclusiveOffset)]

\* parseExclusiveRegularDice: [err, dice]
parseExclusiveRegularDice(countStr, sidesStr) ==
    LET c == parseCount(countStr)
        sides == Atoi(sidesStr)
    IN  IF c.err # Nil THEN [err |-> c.err, dice |-> <<>>]
        ELSE IF sides.err \/ sides.n <= 0
        THEN [err |-> Errorf("invalid dice sides: %s", <<sidesStr>>), dice |-> <<>>]
        ELSE IF c.count > sides.n
        THEN [err |-> Errorf("cannot roll %d exclusive dice with only %d sides",
                             <<c.count, sides.n>>),
              dice |-> <<>>]
        ELSE [err |-> Nil, dice |-> appendDice(c.count, sides.n + ExclusiveOffset)]

\* parseExclusiveFancyDice: [err, dice]
parseExclusiveFancyDice(registry, countStr, typeStr) ==
    LET c == parseCount(countStr)
        fancyType == <<"f">> \o typeStr
    IN  IF c.err # Nil THEN [err |-> c.err, dice |-> <<>>]
        ELSE IF ~Exists(registry, fancyType)
        THEN [err |-> Errorf("unsupported fancy dice type: %s", <<fancyType>>), dice |-> <<>>]
        ELSE IF c.count > Len(registry[fancyType])
        THEN [err |-> Errorf("cannot roll %d exclusive %s dice with only %d values",
                             <<c.count, fancyType, Len(registry[fancyType])>>),
              dice |-> <<>>]
        ELSE [err |-> Nil,
              dice |-> appendDice(c.count, (0 - Atoi(typeStr).n) - ExclusiveOffset)]

\* The last branch of parseSingleDiceGroup, [count]d[sides]: [err, dice]
parseRegularDice(group) ==
    LET matches == FindStringSubmatch("d", group)
        count == IF matches.count = <<>> THEN [err |-> FALSE, n |-> 1] ELSE Atoi(matches.count)
        sides == Atoi(matches.num)
    IN  IF ~matches.match
        THEN [err |-> Errorf("invalid dice notation: %s", <<group>>), dice |-> <<>>]
        ELSE IF count.err
        THEN [err |-> Errorf("invalid number of dice: %s", <<matches.count>>), dice |-> <<>>]
        ELSE IF sides.err
        THEN [err |-> Errorf("invalid number of sides: %s", <<matches.num>>), dice |-> <<>>]
        ELSE IF count.n <= 0
        THEN [err |-> Errorf("dice count must be positive, got: %d", <<count.n>>), dice |-> <<>>]
        ELSE IF sides.n <= 0
        THEN [err |-> Errorf("dice sides must be positive, got: %d", <<sides.n>>), dice |-> <<>>]
        ELSE [err |-> Nil, dice |-> appendDice(count.n, NewDie(sides.n))]

\* parseSingleDiceGroup: [err, dice]
parseSingleDiceGroup(registry, part) ==
    LET group == TrimSpace(part)
        exclusiveFancy == FindStringSubmatch("F", group)
        exclusiveRegular == FindStringSubmatch("D", group)
        fancy == FindStringSubmatch("f", group)
    IN  IF group = <<>> THEN [err |-> Errorf("empty dice group", <<>>), dice |-> <<>>]
        ELSE IF exclusiveFancy.match
        THEN parseExclusiveFancyDice(registry, exclusiveFancy.count, exclusiveFancy.num)
        ELSE IF exclusiveRegular.match
        THEN parseExclusiveRegularDice(exclusiveRegular.count, exclusiveRegular.num)
        ELSE IF fancy.match
        THEN parseFancyDice(registry, fancy.count, fancy.num)
        ELSE parseRegularDice(group)

\* splitDiceExpression that does not take "+" for a separator.
splitDiceExpressionNoPlus(s) == Fields(ReplaceAll(s, ",", " "))

splitDiceExpression(s) == Fields(ReplaceAll(ReplaceAll(s, ",", " "), "+", " "))

\* The loop of ParseDiceNotation over parts[i..]: [err, dice]
RECURSIVE parseParts(_, _, _, _)
parseParts(registry, parts, i, allDice) ==
    IF i > Len(parts) THEN [err |-> Nil, dice |-> allDice]
    ELSE LET r == parseSingleDiceGroup(registry, parts[i])
         IN  IF r.err # Nil THEN [err |-> r.err, dice |-> <<>>]
             ELSE parseParts(registry, parts, i + 1, allDice \o r.dice)

\* ParseDiceNotation without the check that some dice were found.
ParseDiceNotationNoDiceOk(registry, text) ==
    LET s == TrimSpace(text)
        r == parseParts(registry, splitDiceExpression(s), 1, <<>>)
    IN  IF s = <<>> THEN [err |-> Errorf("empty dice notation", <<>>), ds |-> <<>>]
        ELSE IF r.err # Nil THEN [err |-> r.err, ds |-> <<>>]
        ELSE [err |-> Nil, ds |-> r.dice]

\* ParseDiceNotation: [err, ds], ds the Dice of the DiceSet (DiceSet{} on an error).
ParseDiceNotation(registry, text) ==
    LET s == TrimSpace(text)
        r == parseParts(registry, splitDiceExpression(s), 1, <<>>)
    IN  IF s = <<>> THEN [err |-> Errorf("empty dice notation", <<>>), ds |-> <<>>]
        ELSE IF r.err # Nil THEN [err |-> r.err, ds |-> <<>>]
        ELSE IF Len(r.dice) = 0
        THEN [err |-> Errorf("no valid dice found in notation: %s", <<s>>), ds |-> <<>>]
        ELSE [err |-> Nil, ds |-> r.dice]

---------------------------------------------------------------------------
(* The without-replacement sampler                                         *)

\* The draws rand.IntN makes in selectFromSlice(values, n) for len(values) = k:
\* the i-th draw is over the k - i + 1 values not yet selected.
RandDraws(k, n) == {r \in [1..n -> 0..(k - 1)] : \A i \in 1..n : r[i] <= k - i}

\* selectFromSlice without the swap: the value picked stays among the candidates.
RECURSIVE selectFromSliceNoSwap(_, _, _)
selectFromSliceNoSwap(values, n, rnd) ==
    IF n <= 0 \/ Len(values) = 0 THEN <<>>
    ELSE IF n = 1 THEN <<values[rnd[1] + 1]>>
    ELSE <<values[rnd[1] + 1]>> \o selectFromSliceNoSwap(Tail(values), n - 1, Tail(rnd))

\* selectFromSlice selecting the rest from the whole slice, not from values[1:].
RECURSIVE selectFromSliceNoShrink(_, _, _)
selectFromSliceNoShrink(values, n, rnd) ==
    IF n <= 0 \/ Len(values) = 0 THEN <<>>
    ELSE IF n = 1 THEN <<values[rnd[1] + 1]>>
    ELSE LET randomIndex == rnd[1] + 1
             swapped == [values EXCEPT ![1] = values[randomIndex], ![randomIndex] = values[1]]
         IN  <<swapped[1]>> \o selectFromSliceNoShrink(swapped, n - 1, Tail(rnd))

\* selectFromSlice, with rnd the results of its calls of rand.IntN, in order.
RECURSIVE selectFromSlice(_, _, _)
selectFromSlice(values, n, rnd) ==
    IF n <= 0 \/ Len(values) = 0 THEN <<>>
    ELSE IF n = 1 THEN <<values[rnd[1] + 1]>>
    ELSE LET randomIndex == rnd[1] + 1
             swapped == [values EXCEPT ![1] = values[randomIndex], ![randomIndex] = values[1]]
         IN  <<swapped[1]>> \o selectFromSlice(Tail(swapped), n - 1, Tail(rnd))

\* selectWithoutReplacement filling the slice with 0..k-1.
selectWithoutReplacementZeroBased(k, n) ==
    IF n <= 0 \/ k <= 0 \/ n > k THEN {<<>>}
    ELSE {selectFromSlice([i \in 1..k |-> i - 1], n, rnd) : rnd \in RandDraws(k, n)}

\* selectWithoutReplacement(k, n): every slice it can return (nil is <<>>).
selectWithoutReplacement(k, n) ==
    IF n <= 0 \/ k <= 0 \/ n > k THEN {<<>>}
    ELSE {selectFromSlice([i \in 1..k |-> i], n, rnd) : rnd \in RandDraws(k, n)}

---------------------------------------------------------------------------
(* The roll engine                                                         *)

ExclusiveGroup(dice, isExclusive, isFancy) ==
    [Dice |-> dice, IsExclusive |-> isExclusive, IsFancy |-> isFancy]

\* The loop of groupExclusiveDice over ds[i..]: groups and currentGroup after it.
RECURSIVE groupLoop(_, _, _, _)
groupLoop(ds, i, groups, currentGroup) ==
    IF i > Len(ds) THEN [groups |-> groups, currentGroup |-> currentGroup]
    ELSE LET die == ds[i]
             isExclusive == die > ExclusiveOffset \/ die < 0 - ExclusiveOffset
             isFancy == ~(die > ExclusiveOffset) /\ die < 0 - ExclusiveOffset
         IN  IF \/ Len(currentGroup.Dice) = 0
                \/ (currentGroup.IsExclusive = isExclusive /\ currentGroup.IsFancy = isFancy)
             THEN groupLoop(ds, i + 1, groups,
                            ExclusiveGroup(Append(currentGroup.Dice, die), isExclusive, isFancy))
             ELSE groupLoop(ds, i + 1,
                            IF Len(currentGroup.Dice) > 0 THEN Append(groups, currentGroup)
                                                          ELSE groups,
                            ExclusiveGroup(<<die>>, isExclusive, isFancy))

\* groupExclusiveDice without the append of the last group after the loop.
groupExclusiveDiceNoLast(ds) ==
    groupLoop(ds, 1, <<>>, ExclusiveGroup(<<>>, FALSE, FALSE)).groups

groupExclusiveDice(ds) ==
    LET end == groupLoop(ds, 1, <<>>, ExclusiveGroup(<<>>, FALSE, FALSE))
    IN  IF Len(end.currentGroup.Dice) > 0 THEN Append(end.groups, end.currentGroup)
        ELSE end.groups

\* rollExclusiveGroup: every slice of values it can return.
rollExclusiveGroup(registry, group) ==
    IF ~group.IsExclusive \/ Len(group.Dice) = 0 THEN {<<>>}
    ELSE IF group.IsFancy
    THEN LET originalType == 0 - (group.Dice[1] + ExclusiveOffset)
             fancyType == <<"f">> \o Itoa(originalType)
         IN  IF Exists(registry, fancyType)
             THEN selectWithoutReplacement(Len(registry[fancyType]), Len(group.Dice))
             ELSE {[i \in 1..Len(group.Dice) |-> originalType]}
    ELSE selectWithoutReplacement(group.Dice[1] - ExclusiveOffset, Len(group.Dice))

\* Die.Roll returning the kind number for a fancy die of a kind not registered.
DieRollKindFallback(registry, sides) ==
    IF sides <= 0
    THEN IF sides < 0
         THEN IF Exists(registry, <<"f">> \o Itoa(0 - sides))
              THEN 1..Len(registry[<<"f">> \o Itoa(0 - sides)])
              ELSE {0 - sides}
         ELSE {0}
    ELSE 1..sides

\* Die.Roll: every value it can return.
DieRoll(registry, sides) ==
    IF sides <= 0
    THEN IF sides < 0 /\ Exists(registry, <<"f">> \o Itoa(0 - sides))
         THEN 1..Len(registry[<<"f">> \o Itoa(0 - sides)])
         ELSE {0}
    ELSE 1..sides

\* One pass of the body of the exclusive loop of DiceSet.Roll (dice.go 222-266):
\* the DieRoll appended and what is added to total.
exclusiveDieRoll(registry, isFancy, die, value) ==
    IF isFancy
    THEN LET originalType == 0 - (die + ExclusiveOffset)
             fancyType == <<"f">> \o Itoa(originalType)
             found == Exists(registry, fancyType) /\ value > 0
                         /\ value <= Len(registry[fancyType])
         IN  [roll |-> [Die |-> 0 - originalType, Result |-> value, Type |-> fancyType,
                        FancyValue |-> IF found THEN registry[fancyType][value].Name ELSE <<>>],
              score |-> IF found THEN registry[fancyType][value].Value ELSE 0]
    ELSE LET originalSides == die - ExclusiveOffset
         IN  [roll |-> [Die |-> originalSides, Result |-> value,
                        Type |-> <<"d">> \o Itoa(originalSides), FancyValue |-> <<>>],
              score |-> value]

\* normalDieRoll indexing the values by the 1-based roll as if it were 0-based.
normalDieRollOffByOne(registry, die, roll) ==
    IF die < 0
    THEN LET fancyType == <<"f">> \o Itoa(0 - die)
             found == Exists(registry, fancyType) /\ roll > 0
                         /\ roll < Len(registry[fancyType])
         IN  [roll |-> [Die |-> die, Result |-> roll, Type |-> fancyType,
                        FancyValue |-> IF found THEN registry[fancyType][roll + 1].Name ELSE <<>>],
              score |-> IF found THEN registry[fancyType][roll + 1].Value ELSE 0]
    ELSE [roll |-> [Die |-> die, Result |-> roll, Type |-> <<"d">> \o Itoa(die),
                    FancyValue |-> <<>>],
          score |-> roll]

\* One pass of the body of the non-exclusive loop of DiceSet.Roll (dice.go 269-299).
normalDieRoll(registry, die, roll) ==
    IF die < 0
    THEN LET fancyType == <<"f">> \o Itoa(0 - die)
             found == Exists(registry, fancyType) /\ roll > 0
                         /\ roll <= Len(registry[fancyType])
         IN  [roll |-> [Die |-> die, Result |-> roll, Type |-> fancyType,
                        FancyValue |-> IF found THEN registry[fancyType][roll].Name ELSE <<>>],
              score |-> IF found THEN registry[fancyType][roll].Value ELSE 0]
    ELSE [roll |-> [Die |-> die, Result |-> roll, Type |-> <<"d">> \o Itoa(die),
                    FancyValue |-> <<>>],
          score |-> roll]

NewDiceSet(dice) == dice

RollResult(dieRolls, rolls, total) ==
    [DieRolls |-> dieRolls, IndividualRolls |-> rolls, Total |-> total]

\* `dieRolls = append(dieRolls, dieRoll); rolls = append(rolls, value); total += ...`
appendRoll(acc, r) ==
    RollResult(Append(acc.DieRolls, r.roll), Append(acc.IndividualRolls, r.roll.Result),
               acc.Total + r.score)

\* The exclusive loop of DiceSet.Roll over values[i..], from the accumulators acc.
RECURSIVE rollExclusiveLoop(_, _, _, _, _)
rollExclusiveLoop(registry, group, values, i, acc) ==
    IF i > Len(values) THEN acc
    ELSE rollExclusiveLoop(registry, group, values, i + 1,
             appendRoll(acc, exclusiveDieRoll(registry, group.IsFancy, group.Dice[i], values[i])))

\* The non-exclusive loop of DiceSet.Roll over group.Dice[i..]: every accumulator
\* state it can end in.
RECURSIVE rollNormalLoop(_, _, _, _)
rollNormalLoop(registry, dice, i, acc) ==
    IF i > Len(dice) THEN {acc}
    ELSE UNION {rollNormalLoop(registry, dice, i + 1,
                               appendRoll(acc, normalDieRoll(registry, dice[i], roll)))
                : roll \in DieRoll(registry, dice[i])}

\* The loop of DiceSet.Roll over exclusiveGroups[g..]: every RollResult it can end in.
RECURSIVE rollGroups(_, _, _, _)
rollGroups(registry, groups, g, acc) ==
    IF g > Len(groups) THEN {acc}
    ELSE LET group == groups[g]
             after == IF group.IsExclusive
                      THEN {rollExclusiveLoop(registry, group, values, 1, acc)
                            : values \in rollExclusiveGroup(registry, group)}
                      ELSE rollNormalLoop(registry, group.Dice, 1, acc)
         IN  UNION {rollGroups(registry, groups, g + 1, a) : a \in after}

\* DiceSet.Roll: every RollResult it can return.
Roll(registry, ds) == rollGroups(registry, groupExclusiveDice(ds), 1, RollResult(<<>>, <<>>, 0))

\* DiceSet.Roll returns a RollResult and nothing else: the error of a roll.
RollError(result) == Nil

---------------------------------------------------------------------------
(* Inputs                                                                  *)

\* The longest expression, in tokens.
MaxTokens == 2

Token(cnt, letter, num) == [cnt |-> cnt, letter |-> letter, num |-> num]

\* The tokens an expression is made of: [count]letter[number].
Tokens ==
    { Token(<<>>, "d", <<"2">>),    Token(<<"2">>, "d", <<"2">>),
      Token(<<>>, "d", <<"1", "0", "0", "1">>),
      Token(<<>>, "D", <<"1">>),    Token(<<>>, "D", <<"2">>),
      Token(<<>>, "f", <<"1">>),    Token(<<>>, "f", <<"2">>),
      Token(<<>>, "F", <<"1">>),    Token(<<>>, "F", <<"2">>) }

Notations == UNION {[1..n -> Tokens] : n \in 0..MaxTokens}

TokenText(t) == t.cnt \o <<t.letter>> \o t.num

\* strings.Join(diceExpressions, " ") of runCommandLine.
RECURSIVE Join(_, _)
Join(parts, sep) ==
    IF parts = <<>> THEN <<>>
    ELSE IF Len(parts) = 1 THEN parts[1]
    ELSE parts[1] \o sep \o Join(Tail(parts), sep)

Expression(toks) == Join([i \in 1..Len(toks) |-> TokenText(toks[i])], <<" ">>)

\* Definition files, as their lines.
OneFile   == << <<"#", "c">>, <<"J", ",", " ", "7">> >>
CoinsFile == << <<"T", ",", "0">>, <<>>, <<" ", "H">> >>
\* A file whose second line has a value that is no integer.
BrokenFile == << <<"K">>, <<"K", ",", "x">> >>

\* What a glob pattern can match: the files, in filepath.Glob's order.
Globs == { <<OneFile>>, <<CoinsFile, BrokenFile>> }

---------------------------------------------------------------------------
(* The program                                                             *)

\* The keys ParseDiceNotation looks up: "f" + typeStr of every fancy token.
ParseKeys(toks) ==
    {<<"f">> \o toks[i].num : i \in {j \in 1..Len(toks) : toks[j].letter \in {"f", "F"}}}

\* The keys DiceSet.Roll looks up: "f%d" of every die with negative Sides.
RollKeys(ds) ==
    {<<"f">> \o Itoa(IF ds[i] < 0 - ExclusiveOffset THEN 0 - (ds[i] + ExclusiveOffset)
                                                     ELSE 0 - ds[i])
        : i \in {j \in 1..Len(ds) : ds[j] < 0}}

\* The entries of the registry under the keys a call looked up.
ReadValues(registry, keys) == [k \in keys \cap DOMAIN registry |-> registry[k]]

Init ==
    /\ fancyDiceValues = StandardFancyDiceValues
    /\ notation \in Notations
    /\ parsed = None
    /\ parseValues = None
    /\ rolled = None
    /\ rollValues = None
    /\ loadErr = None
    /\ loaded = None
    /\ sample = None
    /\ main = None
    /\ gui = None
    /\ flagsIn = None

\* dice.LoadCustomFancyDice(globPattern), the pattern matching files.
LoadCustomFancyDice(files) ==
    /\ IF Len(files) = 0
       THEN /\ loadErr' = Errorf("no files found matching pattern '%s'", <<>>)
            /\ UNCHANGED fancyDiceValues
       ELSE LET r == loadFiles(fancyDiceValues, files, 1)
            IN  /\ loadErr' = r.err
                /\ fancyDiceValues' = r.registry
    /\ loaded' = [files |-> files]
    /\ UNCHANGED <<notation, parsed, parseValues, rolled, rollValues, sample,
                   main, gui, flagsIn>>

\* diceSet, err := dice.ParseDiceNotation(expression)
Parse ==
    /\ parsed' = ParseDiceNotation(fancyDiceValues, Expression(notation))
    /\ parseValues' = ReadValues(fancyDiceValues, ParseKeys(notation))
    /\ rolled' = None
    /\ rollValues' = None
    /\ UNCHANGED <<fancyDiceValues, notation, loadErr, loaded, sample,
                   main, gui, flagsIn>>

\* result := diceSet.Roll(), reached only when the parse returned no error.
RollDice ==
    /\ parsed # None
    /\ parsed.err = Nil
    /\ \E result \in Roll(fancyDiceValues, parsed.ds) :
          /\ rolled' = result
          /\ rollValues' = ReadValues(fancyDiceValues, RollKeys(parsed.ds))
    /\ UNCHANGED <<fancyDiceValues, notation, parsed, parseValues, loadErr, loaded, sample,
                   main, gui, flagsIn>>

Next ==
    \/ \E files \in Globs : LoadCustomFancyDice(files)
    \/ Parse
    \/ RollDice

Spec == Init /\ [][Next]_vars

---------------------------------------------------------------------------
(* The parser alone, on a wider set of tokens                              *)

ParseTokens ==
    {Token(cnt, letter, num) : cnt \in {<<>>, <<"2">>, <<"3">>},
                               letter \in {"D", "f", "F"},
                               num \in {<<"1">>, <<"2">>}}
    \cup {Token(<<>>, "d", <<"2">>)}

ParseNotations == UNION {[1..n -> ParseTokens] : n \in 0..MaxTokens}

InitParse ==
    /\ fancyDiceValues = StandardFancyDiceValues
    /\ notation \in ParseNotations
    /\ parsed = None
    /\ parseValues = None
    /\ rolled = None
    /\ rollValues = None
    /\ loadErr = None
    /\ loaded = None
    /\ sample = None
    /\ main = None
    /\ gui = None
    /\ flagsIn = None

NextParse ==
    \/ \E files \in Globs : LoadCustomFancyDice(files)
    \/ Parse

SpecParse == InitParse /\ [][NextParse]_vars

---------------------------------------------------------------------------
(* The roll engine on a DiceSet built with NewDie and NewDiceSet           *)

\* The Sides given to NewDie: no sides, a plain die, a fancy die of a built-in kind
\* and of a kind no registry holds, and the exclusive fancy dice of these two kinds.
DirectSides == {0, 2, -2, -9, (0 - 2) - ExclusiveOffset, (0 - 9) - ExclusiveOffset}

DirectDice == UNION {[1..n -> {NewDie(sides) : sides \in DirectSides}] : n \in 1..MaxTokens}

\* parsed holds the DiceSet the caller built, as a parse without error would.
InitDirect ==
    /\ fancyDiceValues = StandardFancyDiceValues
    /\ notation = <<>>
    /\ parsed \in {[err |-> Nil, ds |-> NewDiceSet(dice)] : dice \in DirectDice}
    /\ parseValues = None
    /\ rolled = None
    /\ rollValues = None
    /\ loadErr = None
    /\ loaded = None
    /\ sample = None
    /\ main = None
    /\ gui = None
    /\ flagsIn = None

NextDirect ==
    \/ \E files \in Globs : LoadCustomFancyDice(files)
    \/ RollDice

SpecDirect == InitDirect /\ [][NextDirect]_vars

---------------------------------------------------------------------------
(* The loader at startup, on the files a --fancy pattern can match         *)

\* The longest definition file, in lines.
MaxLines == 3

\* The lines of a definition file: a comment, a blank line, a name, a name with a
\* value, a name with a negative value, and the three malformed lines (no name, a
\* value that is no integer, three fields).
LoadLines ==
    { <<"#", "A">>, <<" ">>, <<"A">>, <<" ", "B", ",", " ", "5">>, <<"C", ",", "-", "3">>,
      <<",", "1">>, <<"A", ",", "x">>, <<"A", ",", "1", ",", "2">> }

LoadFiles == UNION {[1..n -> LoadLines] : n \in 0..MaxLines}

\* The pattern matches no file, one file, or a one-line file and one more file.
LoadGlobs ==
    {<<>>} \cup {<<f>> : f \in LoadFiles}
           \cup {<<<<l>>, f>> : l \in LoadLines, f \in LoadFiles}

InitLoad ==
    /\ fancyDiceValues = StandardFancyDiceValues
    /\ notation = <<>>
    /\ parsed = None
    /\ parseValues = None
    /\ rolled = None
    /\ rollValues = None
    /\ loadErr = None
    /\ loaded = None
    /\ sample = None
    /\ main = None
    /\ gui = None
    /\ flagsIn = None

\* main loads the custom dice once, before anything else.
NextLoad == loadErr = None /\ \E files \in LoadGlobs : LoadCustomFancyDice(files)

SpecLoad == InitLoad /\ [][NextLoad]_vars

---------------------------------------------------------------------------
(* A line of the interactive mode: tokens and the separators typed          *)

\* The longest run of separators in a line.
MaxRun == 2

Separators == {" ", ",", "+"}

Sep(c) == [sep |-> c]

IsToken(piece) == "letter" \in DOMAIN piece

\* The tokens of a line: a count that is absent, zero, positive or negative, each
\* of the four letters, and a number.
LineTokens ==
    {Token(cnt, letter, <<"2">>) : cnt \in {<<>>, <<"0">>, <<"2">>, <<"-", "1">>},
                                   letter \in {"d", "D", "f", "F"}}

SeparatorRuns == UNION {[1..n -> {Sep(c) : c \in Separators}] : n \in 0..MaxRun}

\* A line is a run of separators with no token, a token before or after it, or a
\* token on either side of a run that is not empty.
Lines ==
    {run : run \in SeparatorRuns}
    \cup {<<a>> \o run : a \in LineTokens, run \in SeparatorRuns}
    \cup {run \o <<b>> : run \in SeparatorRuns, b \in LineTokens}
    \cup {<<a>> \o run \o <<b>> : a \in LineTokens, b \in LineTokens,
                                  run \in SeparatorRuns \ {<<>>}}

\* The text of a line, as typed.
RECURSIVE LineText(_)
LineText(line) ==
    IF line = <<>> THEN <<>>
    ELSE (IF IsToken(line[1]) THEN TokenText(line[1]) ELSE <<line[1].sep>>)
             \o LineText(Tail(line))

TokensOf(line) == SelectSeq(line, IsToken)

InitLine ==
    /\ fancyDiceValues = StandardFancyDiceValues
    /\ notation \in Lines
    /\ parsed = None
    /\ parseValues = None
    /\ rolled = None
    /\ rollValues = None
    /\ loadErr = None
    /\ loaded = None
    /\ sample = None
    /\ main = None
    /\ gui = None
    /\ flagsIn = None

\* processDiceExpression: diceSet, err := dice.ParseDiceNotation(expression)
ParseLine ==
    /\ parsed' = ParseDiceNotation(fancyDiceValues, LineText(notation))
    /\ parseValues' = ReadValues(fancyDiceValues, ParseKeys(TokensOf(notation)))
    /\ rolled' = None
    /\ rollValues' = None
    /\ UNCHANGED <<fancyDiceValues, notation, loadErr, loaded, sample,
                   main, gui, flagsIn>>

NextLine ==
    \/ ParseLine
    \/ RollDice

SpecLine == InitLine /\ [][NextLine]_vars

---------------------------------------------------------------------------
(* The sampler alone                                                       *)

\* The largest k of a call selectWithoutReplacement(k, n).
MaxSides == 4

InitSample ==
    /\ fancyDiceValues = StandardFancyDiceValues
    /\ notation = <<>>
    /\ parsed = None
    /\ parseValues = None
    /\ rolled = None
    /\ rollValues = None
    /\ loadErr = None
    /\ loaded = None
    /\ sample \in {[k |-> k, n |-> n, called |-> FALSE, out |-> <<>>] :
                      k \in 0..MaxSides, n \in 0..(MaxSides + 1)}
    /\ main = None
    /\ gui = None
    /\ flagsIn = None

\* out := selectWithoutReplacement(k, n)
Select ==
    /\ ~sample.called
    /\ \E out \in selectWithoutReplacement(sample.k, sample.n) :
          sample' = [sample EXCEPT !.called = TRUE, !.out = out]
    /\ UNCHANGED <<fancyDiceValues, notation, parsed, parseValues, rolled, rollValues,
                   loadErr, loaded, main, gui, flagsIn>>

NextSample == Select

SpecSample == InitSample /\ [][NextSample]_vars

---------------------------------------------------------------------------
(* What the user typed, read off the tokens                                *)

TypedCount(t) == IF t.cnt = <<>> THEN 1 ELSE Atoi(t.cnt).n
TypedNumber(t) == Atoi(t.num).n
IsSymbolic(t) == t.letter \in {"f", "F"}
IsExclusive(t) == t.letter \in {"D", "F"}
TypedKey(t) == <<"f">> \o t.num
TypedLabel(t) == <<IF IsSymbolic(t) THEN "f" ELSE "d">> \o Itoa(TypedNumber(t))

\* The dice of an expression, one entry per die, in the order typed.
RECURSIVE Expand(_)
Expand(toks) ==
    IF toks = <<>> THEN <<>>
    ELSE [i \in 1..TypedCount(toks[1]) |-> toks[1]] \o Expand(Tail(toks))

Typed == Expand(notation)

\* The exclusive runs of the typed dice: <<first, last>> positions of every maximal
\* run of exclusive dice of the same symbolic-ness.
SameRun(a, b) == IsExclusive(a) /\ IsExclusive(b) /\ IsSymbolic(a) = IsSymbolic(b)
ExclusiveRuns ==
    {<<a, b>> \in (1..Len(Typed)) \X (1..Len(Typed)) :
        /\ a <= b
        /\ IsExclusive(Typed[a])
        /\ \A i \in a..b : SameRun(Typed[a], Typed[i])
        /\ (a > 1 => ~SameRun(Typed[a - 1], Typed[a]))
        /\ (b < Len(Typed) => ~SameRun(Typed[b], Typed[b + 1]))}

\* The capacity of a typed die under a registry: its sides, or the number of values
\* of its kind.
Capacity(registry, t) ==
    IF IsSymbolic(t)
    THEN IF Exists(registry, TypedKey(t)) THEN Len(registry[TypedKey(t)]) ELSE 0
    ELSE TypedNumber(t)

Parsed == parsed # None
Rolled == rolled # None
\* The roll returned one outcome per typed die, so that outcome i is that of die i.
Complete == Rolled /\ Len(rolled.DieRolls) = Len(Typed)

RECURSIVE SumSeq(_)
SumSeq(q) == IF q = <<>> THEN 0 ELSE q[1] + SumSeq(Tail(q))

\* The Sides of a die of the DiceSet with the exclusive marker taken off.
PlainSides(die) ==
    IF die > ExclusiveOffset THEN die - ExclusiveOffset
    ELSE IF die < 0 - ExclusiveOffset THEN die + ExclusiveOffset
    ELSE die

---------------------------------------------------------------------------
(* The claims                                                              *)

\* C1: for every accepted notation, Roll returns exactly one outcome per expanded
\* die (len(DieRolls) = len(IndividualRolls) = the sum of the token counts), and
\* outcome i is that of die i of the parsed sequence.
C1_OneOutcomePerDie ==
    Rolled =>
        /\ Len(rolled.DieRolls) = SumSeq([i \in 1..Len(notation) |-> TypedCount(notation[i])])
        /\ Len(rolled.IndividualRolls) = Len(rolled.DieRolls)
        /\ \A i \in 1..Len(rolled.DieRolls) :
              /\ rolled.DieRolls[i].Die = PlainSides(parsed.ds[i])
              /\ rolled.IndividualRolls[i] = rolled.DieRolls[i].Result

C3_CapacityError ==
    Rolled =>
        \A run \in ExclusiveRuns :
            LET n == run[2] - run[1] + 1
                k == Capacity(rollValues, Typed[run[1]])
            IN  IF n > k
                THEN /\ RollError(rolled) # Nil
                     /\ n \in {RollError(rolled).args[i] : i \in 1..Len(RollError(rolled).args)}
                     /\ k \in {RollError(rolled).args[i] : i \in 1..Len(RollError(rolled).args)}
                     /\ rolled.DieRolls = <<>>
                ELSE RollError(rolled) = Nil

\* C4: ParseDiceNotation rejects an exclusive token whose count exceeds its capacity
\* (sides for D, len(registry[kind]) for F) with an error naming the count and the
\* capacity, and accepts the token when the count equals the capacity.
C4_ExclusiveTokenCapacity ==
    Parsed =>
        /\ (\E i \in 1..Len(notation) :
               /\ IsExclusive(notation[i])
               /\ TypedCount(notation[i]) > Capacity(parseValues, notation[i]))
           => (parsed.err # Nil /\ parsed.ds = <<>>)
        /\ (Len(notation) = 1 /\ IsExclusive(notation[1])
               /\ (IsSymbolic(notation[1]) => Exists(parseValues, TypedKey(notation[1]))))
           => LET t == notation[1]
                  count == TypedCount(t)
                  k == Capacity(parseValues, t)
              IN  /\ count > k =>
                        /\ parsed.err.fmt \in
                              {"cannot roll %d exclusive dice with only %d sides",
                               "cannot roll %d exclusive %s dice with only %d values"}
                        /\ parsed.err.args[1] = count
                        /\ parsed.err.args[Len(parsed.err.args)] = k
                  /\ count = k =>
                        /\ parsed.err = Nil
                        /\ Len(parsed.ds) = count

C4_Witness ==
    /\ Parsed
    /\ Len(notation) = 1
    /\ notation[1].letter = "D"
    /\ TypedCount(notation[1]) = 3
    /\ TypedNumber(notation[1]) = 2
    /\ parsed.err # Nil

\* The registry entry an outcome resolves to under the values the roll read:
\* the entry at its 1-based Result in the list of its kind label.
IsFancyRoll(o) == o.Type[1] = "f"
Resolves(o) == Exists(rollValues, o.Type) /\ o.Result \in 1..Len(rollValues[o.Type])
Entry(o) == rollValues[o.Type][o.Result]

\* C5: Total is the sum, over all returned outcomes, of the outcome's scoring
\* contribution: the face value for a standard or exclusive standard die, the score
\* of the resolved registry entry (registry[kind][Result-1].Value) for a symbolic or
\* exclusive symbolic die.
C5_TotalIsSumOfContributions ==
    Rolled =>
        /\ \A i \in 1..Len(rolled.DieRolls) :
              IsFancyRoll(rolled.DieRolls[i]) => Resolves(rolled.DieRolls[i])
        /\ rolled.Total =
              SumSeq([i \in 1..Len(rolled.DieRolls) |->
                         IF IsFancyRoll(rolled.DieRolls[i])
                         THEN Entry(rolled.DieRolls[i]).Value
                         ELSE rolled.DieRolls[i].Result])

\* C6: every exclusive standard die written D<s> yields a result in [1, s] for its
\* own s, also next to exclusive tokens with other sides.
C6_ExclusiveResultInOwnRange ==
    Complete =>
        \A i \in 1..Len(Typed) :
            Typed[i].letter = "D" =>
                rolled.DieRolls[i].Result \in 1..TypedNumber(Typed[i])

\* C7: every outcome of a symbolic die (f or F) carries a non-empty display value,
\* the label of the registry entry at its drawn index for its own kind; every
\* outcome of a standard die (d or D) has an empty display value.
C7_DisplayValue ==
    Complete =>
        \A i \in 1..Len(Typed) :
            LET o == rolled.DieRolls[i]
                key == TypedKey(Typed[i])
            IN  IF IsSymbolic(Typed[i])
                THEN /\ Exists(rollValues, key)
                     /\ o.Result \in 1..Len(rollValues[key])
                     /\ o.FancyValue = rollValues[key][o.Result].Name
                     /\ o.FancyValue # <<>>
                ELSE o.FancyValue = <<>>

\* C8: the kind label of an outcome is "d<sides>" for a die typed [count]d<sides> or
\* [count]D<sides> and "f<kind>" for one typed [count]f<kind> or [count]F<kind>,
\* with the number the user typed, whatever positive number that is.
C8_KindLabel ==
    Complete =>
        \A i \in 1..Len(Typed) : rolled.DieRolls[i].Type = TypedLabel(Typed[i])

\* An expression that is one symbolic token with a positive count.
OneSymbolicToken ==
    Len(notation) = 1 /\ IsSymbolic(notation[1]) /\ TypedCount(notation[1]) > 0

\* Every outcome is resolved against the values the roll read, and so is Total.
ResolvedAtRoll ==
    /\ \A i \in 1..Len(rolled.DieRolls) :
          /\ Resolves(rolled.DieRolls[i])
          /\ rolled.DieRolls[i].Type = TypedKey(notation[1])
          /\ rolled.DieRolls[i].FancyValue = Entry(rolled.DieRolls[i]).Name
    /\ rolled.Total =
          SumSeq([i \in 1..Len(rolled.DieRolls) |-> Entry(rolled.DieRolls[i]).Value])

C10_UnknownKindRejected ==
    Parsed =>
        /\ (\E i \in 1..Len(notation) :
               IsSymbolic(notation[i]) /\ ~Exists(parseValues, TypedKey(notation[i])))
           => (parsed.err # Nil /\ parsed.ds = <<>>)
        /\ (OneSymbolicToken /\ ~Exists(parseValues, TypedKey(notation[1])))
           => parsed.err.fmt = "unsupported fancy dice type: %s"

C10_Witness ==
    /\ Parsed
    /\ Len(notation) = 1
    /\ notation[1].letter = "F"
    /\ TypedCount(notation[1]) = 3
    /\ ~Exists(parseValues, TypedKey(notation[1]))
    /\ parsed.err # Nil

\* The registry key of a fancy die of the DiceSet.
FancyKey(die) == <<"f">> \o Itoa(0 - PlainSides(die))

\* A die of the rolled DiceSet is symbolic and the roll found no values of its kind.
UnknownKindDice ==
    {i \in 1..Len(parsed.ds) : parsed.ds[i] < 0 /\ ~Exists(rollValues, FancyKey(parsed.ds[i]))}

\* C11: rolling a sequence with a symbolic die whose kind is absent from the registry
\* fails with an unknown-kind error naming the kind, and produces no outcome and no
\* numeric fallback value for such a die.
C11_UnknownKindError ==
    (Rolled /\ UnknownKindDice # {}) =>
        /\ RollError(rolled) # Nil
        /\ \A i \in UnknownKindDice :
              /\ \E a \in 1..Len(RollError(rolled).args) :
                    RollError(rolled).args[a] = FancyKey(parsed.ds[i])
              /\ \A o \in 1..Len(rolled.DieRolls) :
                    rolled.DieRolls[o].Type # FancyKey(parsed.ds[i])

---------------------------------------------------------------------------
(* What a definition file says, read off its lines                         *)

IsValidLine(l) == TrimSpace(l) # <<>> /\ TrimSpace(l)[1] # "#"
ValidLines(file) == SelectSeq(file, IsValidLine)
LineFields(l) == Split(TrimSpace(l), ",")
LineLabel(l) == TrimSpace(LineFields(l)[1])
HasExplicitValue(l) == Len(LineFields(l)) = 2
ExplicitValue(l) == Atoi(TrimSpace(LineFields(l)[2])).n
WellFormed(l) ==
    /\ Len(LineFields(l)) <= 2
    /\ LineLabel(l) # <<>>
    /\ HasExplicitValue(l) => ~Atoi(TrimSpace(LineFields(l)[2])).err

\* A file the loader must refuse: a malformed line, or no valid line at all.
BadFile(file) ==
    \/ ValidLines(file) = <<>>
    \/ \E i \in 1..Len(ValidLines(file)) : ~WellFormed(ValidLines(file)[i])

\* The kind a file defines and its (label, score) pairs, in file order.
FileKey(file) == <<"f">> \o Itoa(Len(ValidLines(file)))
FilePairs(file) ==
    [i \in 1..Len(ValidLines(file)) |->
        LET l == ValidLines(file)[i]
        IN  FancyDieValue(LineLabel(l), IF HasExplicitValue(l) THEN ExplicitValue(l) ELSE i)]

\* The registry after the good files `files` were loaded over the built-in kinds,
\* in order: every kind holds the pairs of the last file that defines it.
Overlaid(files) ==
    [k \in DOMAIN StandardFancyDiceValues \cup {FileKey(files[i]) : i \in 1..Len(files)} |->
        IF \E i \in 1..Len(files) : FileKey(files[i]) = k
        THEN FilePairs(files[CHOOSE i \in 1..Len(files) :
                                /\ FileKey(files[i]) = k
                                /\ \A j \in (i + 1)..Len(files) : FileKey(files[j]) # k])
        ELSE StandardFancyDiceValues[k]]

Loaded == loaded # None
Given == loaded.files
LoadedOk == Loaded /\ Given # <<>> /\ \A i \in 1..Len(Given) : ~BadFile(Given[i])

\* C12: loading a file with m valid lines sets kind m to exactly the m (label, score)
\* pairs of the file in file order, replacing the built-in or previously loaded list
\* of kind m whole, and leaves every other kind unchanged.
C12_LoadReplacesKind ==
    LoadedOk =>
        LET file == Given[Len(Given)]
            before == Overlaid(SubSeq(Given, 1, Len(Given) - 1))
        IN  /\ loadErr = Nil
            /\ Exists(fancyDiceValues, FileKey(file))
            /\ fancyDiceValues[FileKey(file)] = FilePairs(file)
            /\ Len(fancyDiceValues[FileKey(file)]) = Len(ValidLines(file))
            /\ DOMAIN fancyDiceValues = DOMAIN before \cup {FileKey(file)}
            /\ \A k \in DOMAIN before : k # FileKey(file) => fancyDiceValues[k] = before[k]

C12_Witness ==
    /\ LoadedOk
    /\ Len(Given) = 2
    /\ FileKey(Given[1]) = FileKey(Given[2])
    /\ FilePairs(Given[1]) # FilePairs(Given[2])
    /\ Len(Given[2]) = MaxLines

\* The example of the README: Apple,10 / Banana / Cherry,15 / Date / Elderberry,5.
FruitsFile ==
    << <<"A", ",", "1", "0">>, <<"B">>, <<"C", ",", "1", "5">>, <<"D">>, <<"E", ",", "5">> >>

\* C13: a line without a value gets as score its 1-based position among the valid
\* lines of its file (blank and comment lines are not counted), a line with an
\* integer value gets that value, and explicit values do not shift the positional
\* defaults (in the README's example Banana is 2 and Date is 4).
C13_PositionalDefault ==
    /\ LoadedOk =>
          LET file == Given[Len(Given)]
              values == fancyDiceValues[FileKey(file)]
          IN  \A i \in 1..Len(ValidLines(file)) :
                  values[i].Value = IF HasExplicitValue(ValidLines(file)[i])
                                    THEN ExplicitValue(ValidLines(file)[i])
                                    ELSE i
    /\ Loaded =>
          LET values == scanLines(FruitsFile, 1, <<>>).values
          IN  [i \in 1..Len(values) |-> values[i].Value] = <<10, 2, 15, 4, 5>>

C13_Witness ==
    /\ LoadedOk
    /\ LET file == Given[Len(Given)]
       IN  /\ Len(file) = 3
           /\ ~IsValidLine(file[1])
           /\ HasExplicitValue(file[2])
           /\ IsValidLine(file[3]) /\ ~HasExplicitValue(file[3])
           /\ fancyDiceValues[FileKey(file)][2].Value = 2

\* C14: loading is all-or-nothing per file: a file with a malformed line at any
\* position, or with no valid line, makes the load return an error and changes no
\* registry entry; the overlays of the files loaded before it stay in place.
C14_AllOrNothingPerFile ==
    (Loaded /\ \E i \in 1..Len(Given) : BadFile(Given[i])) =>
        LET bad == CHOOSE i \in 1..Len(Given) :
                       BadFile(Given[i]) /\ \A j \in 1..(i - 1) : ~BadFile(Given[j])
        IN  /\ loadErr # Nil
            /\ loadErr.fmt = "error loading file '%s': %v"
            /\ fancyDiceValues = Overlaid(SubSeq(Given, 1, bad - 1))

C14_Witness ==
    /\ Loaded
    /\ Len(Given) = 2
    /\ ~BadFile(Given[1])
    /\ Len(Given[2]) = 3
    /\ IsValidLine(Given[2][1]) /\ WellFormed(Given[2][1])
    /\ IsValidLine(Given[2][2]) /\ WellFormed(Given[2][2])
    /\ IsValidLine(Given[2][3]) /\ ~WellFormed(Given[2][3])
    /\ loadErr # Nil
    /\ fancyDiceValues[FileKey(Given[1])] = FilePairs(Given[1])

---------------------------------------------------------------------------
(* The dice a token stands for                                             *)

\* The Sides of a die of the variant a token names.
VariantSides(t) ==
    IF t.letter = "d" THEN TypedNumber(t)
    ELSE IF t.letter = "D" THEN TypedNumber(t) + ExclusiveOffset
    ELSE IF t.letter = "f" THEN 0 - TypedNumber(t)
    ELSE (0 - TypedNumber(t)) - ExclusiveOffset

\* A count is absent or a positive integer.
GoodCount(t) == t.cnt = <<>> \/ (AllDigits(t.cnt) /\ TypedCount(t) > 0)

\* C15: for each of the four token patterns an absent count means 1, a present count
\* must be a positive integer, a count of zero makes the whole parse fail, and a
\* valid token with count c contributes exactly c consecutive dice of its variant.
C15_TokenCount ==
    (Parsed /\ TokensOf(notation) # <<>>) =>
        LET toks == TokensOf(notation)
            dice == Expand(toks)
        IN  IF \A i \in 1..Len(toks) : GoodCount(toks[i])
            THEN /\ parsed.err = Nil
                 /\ parsed.ds = [i \in 1..Len(dice) |-> VariantSides(dice[i])]
                 /\ Len(parsed.ds) =
                       SumSeq([i \in 1..Len(toks) |->
                                  IF toks[i].cnt = <<>> THEN 1 ELSE TypedCount(toks[i])])
            ELSE /\ parsed.err # Nil
                 /\ parsed.ds = <<>>

C15_Witness ==
    /\ Parsed
    /\ Len(TokensOf(notation)) = 2
    /\ TokensOf(notation)[1].cnt = <<"2">> /\ TokensOf(notation)[1].letter = "F"
    /\ TokensOf(notation)[2].cnt = <<>> /\ TokensOf(notation)[2].letter = "d"
    /\ parsed.ds = <<(0 - 2) - ExclusiveOffset, (0 - 2) - ExclusiveOffset, 2>>

\* C16: ParseDiceNotation returns an error, and no dice, for every input that is
\* empty after removing the separators: the empty string, white space only, and
\* commas, plus signs and spaces only.
C16_EmptyExpression ==
    (Parsed /\ TokensOf(notation) = <<>>) =>
        /\ parsed.err # Nil
        /\ parsed.ds = <<>>

C16_Witness ==
    /\ Parsed
    /\ notation = <<Sep(","), Sep("+")>>
    /\ parsed.err # Nil

\* C17: space, comma and plus are interchangeable separators: whatever separator or
\* run of separators stands between two tokens, the parse result is that of the two
\* tokens with one space between them, and it is the concatenation of the parses of
\* the two tokens when both parse.
C17_SeparatorsInterchangeable ==
    (Parsed /\ Len(TokensOf(notation)) = 2) =>
        LET a == TokenText(TokensOf(notation)[1])
            b == TokenText(TokensOf(notation)[2])
            pa == ParseDiceNotation(fancyDiceValues, a)
            pb == ParseDiceNotation(fancyDiceValues, b)
        IN  /\ parsed = ParseDiceNotation(fancyDiceValues, a \o <<" ">> \o b)
            /\ (pa.err = Nil /\ pb.err = Nil) =>
                   /\ parsed.err = Nil
                   /\ parsed.ds = pa.ds \o pb.ds

C17_Witness ==
    /\ Parsed
    /\ Len(notation) = 4
    /\ notation[2] = Sep("+")
    /\ notation[3] = Sep(",")
    /\ parsed.err = Nil
    /\ Len(parsed.ds) = 4

---------------------------------------------------------------------------
(* The sampler's contract                                                  *)

\* A call of selectWithoutReplacement(k, n) with 0 < n <= k has returned.
Sampled == sample # None /\ sample.called /\ 0 < sample.n /\ sample.n <= sample.k

\* The ordered n-subsets of [1, k]: the sequences of n pairwise distinct values.
OrderedSubsets(k, n) ==
    {q \in [1..n -> 1..k] : \A i, j \in 1..n : i # j => q[i] # q[j]}

\* C18: for 0 < n <= k, selectWithoutReplacement(k, n) returns exactly n pairwise
\* distinct integers, each in [1, k], whatever the random choices are.
C18_SampleDistinctInRange ==
    Sampled =>
        /\ Len(sample.out) = sample.n
        /\ \A i \in 1..Len(sample.out) : sample.out[i] \in 1..sample.k
        /\ \A i, j \in 1..Len(sample.out) : i # j => sample.out[i] # sample.out[j]

C18_Witness ==
    /\ Sampled
    /\ sample.n = 3
    /\ sample.k = MaxSides
    /\ sample.out[1] = MaxSides
    /\ sample.out[3] = 1

\* C19: the draws are r1 in [0,k), r2 in [0,k-1), ..., rn in [0,k-n+1), and the map
\* from the sequences of draws to the outputs is a bijection onto the ordered
\* n-subsets of [1, k]: there are as many outputs as sequences of draws (the map is
\* one to one) and the outputs are exactly the ordered n-subsets (it is onto).
C19_DrawsToOutputsBijection ==
    Sampled =>
        LET k == sample.k
            n == sample.n
            output(rnd) == selectFromSlice([i \in 1..k |-> i], n, rnd)
        IN  /\ RandDraws(k, n) =
                  {r \in [1..n -> 0..(k - 1)] : \A i \in 1..n : r[i] < k - i + 1}
            /\ Cardinality({output(rnd) : rnd \in RandDraws(k, n)}) = Cardinality(RandDraws(k, n))
            /\ {output(rnd) : rnd \in RandDraws(k, n)} = OrderedSubsets(k, n)
            /\ sample.out \in OrderedSubsets(k, n)

C19_Witness ==
    /\ Sampled
    /\ sample.n = 2
    /\ sample.k = 3
    /\ sample.out = <<3, 1>>
    /\ Cardinality(OrderedSubsets(3, 2)) = 6

---------------------------------------------------------------------------
(* Exclusive symbolic runs                                                 *)

\* The labels the definition of a kind gives, and the score it gives to a label.
LabelsOf(values) == {values[e].Name : e \in 1..Len(values)}
ScoreOf(values, label) == values[CHOOSE e \in 1..Len(values) : values[e].Name = label].Value

\* C20: for any exclusive symbolic run, under the built-in registry or one produced
\* by successful loads, the display labels of the run's outcomes are pairwise
\* distinct labels of the definition of their kind, and each outcome scores what the
\* definition gives to its label.
C20_ExclusiveSymbolicLabels ==
    Complete =>
        \A run \in ExclusiveRuns :
            IsSymbolic(Typed[run[1]]) =>
                /\ \A i, j \in run[1]..run[2] :
                      i # j => rolled.DieRolls[i].FancyValue # rolled.DieRolls[j].FancyValue
                /\ \A i \in run[1]..run[2] :
                      /\ Exists(rollValues, TypedKey(Typed[i]))
                      /\ rolled.DieRolls[i].FancyValue \in LabelsOf(rollValues[TypedKey(Typed[i])])
                /\ (run[1] = 1 /\ run[2] = Len(Typed)) =>
                      rolled.Total =
                          SumSeq([i \in 1..Len(Typed) |->
                                     ScoreOf(rollValues[TypedKey(Typed[i])],
                                             rolled.DieRolls[i].FancyValue)])

---------------------------------------------------------------------------
(* Independence of the draws                                               *)

\* The tuples of results DiceSet.Roll can return for a DiceSet.
ResultsOf(registry, ds) == {r.IndividualRolls : r \in Roll(registry, ds)}

\* The dice of one typed token on its own.
TokenDice(registry, t) == ParseDiceNotation(registry, TokenText(t)).ds

RECURSIVE ProductSeq(_)
ProductSeq(q) == IF q = <<>> THEN 1 ELSE q[1] * ProductSeq(Tail(q))

\* C21: the no-repeat rule applies within one notation group only: in an accepted
\* expression of two exclusive groups the groups are drawn independently, so the
\* possible results are every result of the first group followed by every result of
\* the second, and a value of one group can appear in the other.
C21_ExclusiveGroupsIndependent ==
    (Parsed /\ parsed.err = Nil /\ Len(notation) = 2
        /\ IsExclusive(notation[1]) /\ IsExclusive(notation[2])) =>
        ResultsOf(fancyDiceValues, parsed.ds) =
            {a \o b : a \in ResultsOf(fancyDiceValues, TokenDice(fancyDiceValues, notation[1])),
                      b \in ResultsOf(fancyDiceValues, TokenDice(fancyDiceValues, notation[2]))}

\* C22: the dice of non-exclusive tokens are sampled independently with replacement:
\* the possible result tuples of an accepted expression of non-exclusive tokens are
\* exactly the tuples with entry i in [1, sides] for a die d<sides> and in
\* [1, len(registry[kind])] for a die f<kind>.
C22_NonExclusiveFullRange ==
    (Parsed /\ parsed.err = Nil /\ Typed # <<>>
        /\ \A i \in 1..Len(Typed) : ~IsExclusive(Typed[i])) =>
        LET results == ResultsOf(fancyDiceValues, parsed.ds)
        IN  /\ \A r \in results :
                  /\ Len(r) = Len(Typed)
                  /\ \A i \in 1..Len(r) : r[i] \in 1..Capacity(fancyDiceValues, Typed[i])
            /\ Cardinality(results) =
                  ProductSeq([i \in 1..Len(Typed) |-> Capacity(fancyDiceValues, Typed[i])])

---------------------------------------------------------------------------
(* The partition into runs                                                 *)

\* What a die of a DiceSet is, read off its Sides.
DieIsExclusive(die) == die > ExclusiveOffset \/ die < 0 - ExclusiveOffset
DieIsSymbolic(die) == die < 0

RECURSIVE Flatten(_)
Flatten(groups) == IF groups = <<>> THEN <<>> ELSE groups[1].Dice \o Flatten(Tail(groups))

\* The pair the statement groups by, and the pair the groups are built by.
KindPair(die) == <<DieIsExclusive(die), DieIsSymbolic(die)>>
RunPair(die) == <<DieIsExclusive(die), DieIsExclusive(die) /\ DieIsSymbolic(die)>>

Groups == groupExclusiveDice(parsed.ds)

\* C23 as stated: groupExclusiveDice partitions the dice into maximal runs: the
\* groups' dice concatenated are the input in order, every group is non-empty and
\* homogeneous in (isExclusive, isSymbolic), and two consecutive groups differ in
\* that pair.
C23_MaximalRunsBySymbolic ==
    (Parsed /\ parsed.err = Nil) =>
        /\ Flatten(Groups) = parsed.ds
        /\ \A g \in 1..Len(Groups) :
              /\ Groups[g].Dice # <<>>
              /\ \A i \in 1..Len(Groups[g].Dice) :
                    KindPair(Groups[g].Dice[i]) = KindPair(Groups[g].Dice[1])
        /\ \A g \in 1..(Len(Groups) - 1) :
              KindPair(Groups[g].Dice[1]) # KindPair(Groups[g + 1].Dice[1])

\* C23 amended: the same partition, by the pair (isExclusive, isExclusive and
\* isSymbolic): non-exclusive standard and symbolic dice share a group, and the
\* flags of a group are that pair of its dice.
C23_MaximalRunsByFlags ==
    (Parsed /\ parsed.err = Nil) =>
        /\ Flatten(Groups) = parsed.ds
        /\ \A g \in 1..Len(Groups) :
              /\ Groups[g].Dice # <<>>
              /\ \A i \in 1..Len(Groups[g].Dice) :
                    RunPair(Groups[g].Dice[i]) = <<Groups[g].IsExclusive, Groups[g].IsFancy>>
        /\ \A g \in 1..(Len(Groups) - 1) :
              RunPair(Groups[g].Dice[1]) # RunPair(Groups[g + 1].Dice[1])

\* A roll of three dice in two groups, the first of two non-exclusive dice.
C23_Witness ==
    /\ Rolled
    /\ Len(parsed.ds) = 3
    /\ Len(Groups) = 2
    /\ Len(Groups[1].Dice) = 2
    /\ Groups[2].IsExclusive

---------------------------------------------------------------------------
(* Frame conditions of a step                                              *)

\* The kinds whose entry differs between the registry before and after a step.
ChangedKinds ==
    {k \in DOMAIN fancyDiceValues \cup DOMAIN fancyDiceValues' :
        ~(/\ k \in DOMAIN fancyDiceValues
          /\ k \in DOMAIN fancyDiceValues'
          /\ fancyDiceValues[k] = fancyDiceValues'[k])}

\* The kinds of the files of the last load that were read without error.
GoodKinds(files) ==
    {FileKey(files[i]) : i \in {j \in 1..Len(files) : \A h \in 1..j : ~BadFile(files[h])}}

KindLabels(result) == [i \in 1..Len(result.DieRolls) |-> result.DieRolls[i].Type]

\* C24: the registry is changed only by the successful load of a file, which changes
\* the kind of that file and no other; a parse or a roll leaves every registry entry
\* unchanged, a roll leaves the DiceSet unchanged, and a roll of the same DiceSet
\* again returns as many outcomes with the same kind labels.
C24_FrameEffects ==
    [][/\ ChangedKinds # {} =>
             /\ loaded' # None
             /\ ChangedKinds \subseteq GoodKinds(loaded'.files)
             /\ Len(loaded'.files) = 1 => Cardinality(ChangedKinds) = 1
             /\ UNCHANGED <<parsed, rolled>>
       /\ (parsed' # parsed \/ rolled' # rolled) => ChangedKinds = {}
       /\ (rolled' # None /\ rolled' # rolled) => parsed' = parsed
       /\ (rolled # None /\ rolled' # None /\ parsed' = parsed /\ rollValues' = rollValues) =>
             /\ Len(rolled'.DieRolls) = Len(rolled.DieRolls)
             /\ KindLabels(rolled') = KindLabels(rolled)]_vars

\* A roll after a load that replaced the values of a kind of the rolled dice.
C24_Witness ==
    /\ Rolled
    /\ Loaded
    /\ loadErr = Nil
    /\ \E k \in DOMAIN rollValues :
          /\ Exists(StandardFancyDiceValues, k)
          /\ rollValues[k] # StandardFancyDiceValues[k]

---------------------------------------------------------------------------
(* Dice that cannot be rolled                                              *)

\* A die Die.Roll cannot roll under a registry: no sides, or a kind not registered.
Unrollable(registry, die) ==
    \/ die = 0
    \/ (die < 0 /\ ~Exists(registry, <<"f">> \o Itoa(0 - die)))

\* C25: Die.Roll returns 0 for a die that cannot be rolled: sides = 0, or negative
\* sides -k with kind k not in the registry; so does every such die that DiceSet.Roll
\* rolls with Die.Roll.
C25_UnrollableDieIsZero ==
    /\ \A sides \in DirectSides \cup {0 - 1} :
          Unrollable(fancyDiceValues, sides) => DieRoll(fancyDiceValues, sides) = {0}
    /\ (Rolled /\ Len(rolled.DieRolls) = Len(parsed.ds)) =>
          \A i \in 1..Len(parsed.ds) :
              (~DieIsExclusive(parsed.ds[i]) /\ Unrollable(fancyDiceValues, parsed.ds[i])) =>
                  /\ rolled.DieRolls[i].Result = 0
                  /\ rolled.IndividualRolls[i] = 0

\* A roll of a die without sides next to a fancy die of a kind not registered.
C25_Witness ==
    /\ Rolled
    /\ parsed.ds = <<0, 0 - 9>>
    /\ rolled.IndividualRolls = <<0, 0>>

---------------------------------------------------------------------------
(* Sorting and printing the rolls                                          *)

\* sort.Slice(rolls, less) with less comparing Result: every order it can leave
\* the slice in (sort.Slice is not stable).  `left` are the positions not placed yet.
RECURSIVE sortOrders(_, _, _)
sortOrders(rolls, left, descending) ==
    IF left = {} THEN {<<>>}
    ELSE UNION {{<<rolls[i]>> \o rest : rest \in sortOrders(rolls, left \ {i}, descending)}
                : i \in {j \in left :
                            \A h \in left : IF descending
                                            THEN rolls[h].Result <= rolls[j].Result
                                            ELSE rolls[h].Result >= rolls[j].Result}}

sortSlice(rolls, descending) == sortOrders(rolls, 1..Len(rolls), descending)

\* The rolls runCommandLine and processDiceExpression hand to the printer.
sortedRolls(result, ascending, descending) ==
    IF ascending \/ descending
    THEN IF ascending THEN sortSlice(result.DieRolls, FALSE)
         ELSE sortSlice(result.DieRolls, TRUE)
    ELSE {result.DieRolls}

\* fmt.Sprintf(format, args...), kept as the format and its arguments.
Sprintf(f, a) == [fmt |-> f, args |-> a]

\* One row of output for a roll: its Type, and its FancyValue or else its Result.
RollLine(roll) ==
    [Type |-> roll.Type,
     Text |-> IF roll.FancyValue # <<>> THEN roll.FancyValue ELSE Itoa(roll.Result)]

\* printCommandLineResults: the lines written to stdout.
printCommandLineResults(dieRolls, total) ==
    [lines |-> [i \in 1..Len(dieRolls) |-> RollLine(dieRolls[i])],
     total |-> Sprintf("Total: %d\n", <<total>>)]

---------------------------------------------------------------------------
(* The window of internal/gui (the App with a sort menu)                   *)

SortDiceOrder == "SortDiceOrder"
SortAscending == "SortAscending"
SortDescending == "SortDescending"
SortOrder == {SortDiceOrder, SortAscending, SortDescending}

\* widget.NewLabel(text) as the content of a card.
NewLabel(text) == [label |-> text]

NewApp ==
    [currentSort |-> SortDiceOrder,
     lastResult  |-> None,
     resultsCard |-> NewLabel(Sprintf("Click 'Roll Dice' to get started!", <<>>)),
     totalCard   |-> NewLabel(Sprintf("", <<>>))]

\* updateResults: every App it can leave (the sort of the copy is not stable).
updateResults(a, result) ==
    {[a EXCEPT !.lastResult = result,
               !.resultsCard = [grid |-> [i \in 1..Len(dieRolls) |-> RollLine(dieRolls[i])]],
               !.totalCard = NewLabel(Sprintf("Total: %d", <<result.Total>>))]
        : dieRolls \in IF a.currentSort = SortAscending THEN sortSlice(result.DieRolls, FALSE)
                       ELSE IF a.currentSort = SortDescending
                       THEN sortSlice(result.DieRolls, TRUE)
                       ELSE {result.DieRolls}}

showError(a, message) ==
    [a EXCEPT !.resultsCard = NewLabel(message),
              !.totalCard = NewLabel(Sprintf("", <<>>)),
              !.lastResult = None]

\* setSortOrder without the test of lastResult: it displays the stored result.
setSortOrderAlways(a, order) ==
    LET b == [a EXCEPT !.currentSort = order]
    IN  IF b.lastResult # None THEN updateResults(b, b.lastResult)
        ELSE updateResults(b, RollResult(<<>>, <<>>, 0))

setSortOrder(a, order) ==
    LET b == [a EXCEPT !.currentSort = order]
    IN  IF b.lastResult # None THEN updateResults(b, b.lastResult) ELSE {b}

resetDisplay(a) ==
    [a EXCEPT !.resultsCard = NewLabel(Sprintf("Click 'Roll Dice' to get started!", <<>>)),
              !.totalCard = NewLabel(Sprintf("", <<>>)),
              !.lastResult = None]

---------------------------------------------------------------------------
(* A run of main()                                                         *)

\* The tokens of the arguments, of a line of the interactive mode, and of the entry
\* of the window: f1 is a kind only a definition file gives.
MainTokens ==
    {Token(<<>>, "d", <<"2">>), Token(<<>>, "f", <<"1">>), Token(<<>>, "f", <<"2">>)}

MainNotations == UNION {[1..n -> MainTokens] : n \in 0..MaxTokens}

\* The --fancy flag: absent, or a pattern and the files it matches (possibly none).
FancyFlags ==
    {[given |-> FALSE, files |-> <<>>]} \cup {[given |-> TRUE, files |-> files] : files \in Globs \cup {<<>>}}

Flags ==
    [ascending : BOOLEAN, descending : BOOLEAN, help : BOOLEAN, interactive : BOOLEAN,
     fancy : FancyFlags]

InitMain ==
    /\ fancyDiceValues = StandardFancyDiceValues
    /\ notation \in MainNotations
    /\ parsed = None
    /\ parseValues = None
    /\ rolled = None
    /\ rollValues = None
    /\ loadErr = None
    /\ loaded = None
    /\ sample = None
    /\ main \in {[pc |-> "start", exit |-> <<>>, flags |-> f, printed |-> None] : f \in Flags}
    /\ gui = None
    /\ flagsIn = None

\* os.Exit(status), or the return of main() with status 0.
Exit(m, status) == [m EXCEPT !.pc = "exited", !.exit = <<status>>]

\* dice.LoadCustomFancyDice as main() calls it: [err, registry].
loadCustom(registry, files) ==
    IF Len(files) = 0
    THEN [err |-> Errorf("no files found matching pattern '%s'", <<>>), registry |-> registry]
    ELSE loadFiles(registry, files, 1)

\* mainStart going on to the mode when the load returned an error.
mainStartIgnoreError ==
    /\ main # None
    /\ main.pc = "start"
    /\ IF main.flags.help
       THEN /\ main' = Exit(main, 0)
            /\ UNCHANGED <<fancyDiceValues, loadErr, loaded>>
       ELSE IF main.flags.fancy.given
       THEN LET r == loadCustom(fancyDiceValues, main.flags.fancy.files)
            IN  /\ loadErr' = r.err
                /\ fancyDiceValues' = r.registry
                /\ loaded' = [files |-> main.flags.fancy.files]
                /\ main' = [main EXCEPT !.pc = "mode"]
       ELSE /\ main' = [main EXCEPT !.pc = "mode"]
            /\ UNCHANGED <<fancyDiceValues, loadErr, loaded>>
    /\ UNCHANGED <<notation, parsed, parseValues, rolled, rollValues, sample, gui, flagsIn>>

\* main() up to the choice of the mode: the help and version flags, then the load
\* of the --fancy files (main.go 35-60).
mainStart ==
    /\ main # None
    /\ main.pc = "start"
    /\ IF main.flags.help
       THEN /\ main' = Exit(main, 0)
            /\ UNCHANGED <<fancyDiceValues, loadErr, loaded>>
       ELSE IF main.flags.fancy.given
       THEN LET r == loadCustom(fancyDiceValues, main.flags.fancy.files)
            IN  /\ loadErr' = r.err
                /\ fancyDiceValues' = r.registry
                /\ loaded' = [files |-> main.flags.fancy.files]
                /\ main' = IF r.err # Nil THEN Exit(main, 1) ELSE [main EXCEPT !.pc = "mode"]
       ELSE /\ main' = [main EXCEPT !.pc = "mode"]
            /\ UNCHANGED <<fancyDiceValues, loadErr, loaded>>
    /\ UNCHANGED <<notation, parsed, parseValues, rolled, rollValues, sample, gui, flagsIn>>

\* The parse, roll, sort and print shared by runCommandLine (main.go 90-122) and
\* processDiceExpression (272-304); `failed` and `done` are main after a parse error
\* and after the print.
processDiceExpression(toks, failed, done) ==
    /\ notation' = toks
    /\ parsed' = ParseDiceNotation(fancyDiceValues, Expression(toks))
    /\ parseValues' = ReadValues(fancyDiceValues, ParseKeys(toks))
    /\ IF parsed'.err # Nil
       THEN /\ rolled' = None
            /\ rollValues' = None
            /\ main' = [failed EXCEPT !.printed =
                           Sprintf("Error parsing dice notation '%s': %v\n", <<parsed'.err>>)]
       ELSE \E result \in Roll(fancyDiceValues, parsed'.ds) :
            \E shown \in sortedRolls(result, main.flags.ascending, main.flags.descending) :
                /\ rolled' = result
                /\ rollValues' = ReadValues(fancyDiceValues, RollKeys(parsed'.ds))
                /\ main' = [done EXCEPT !.printed =
                               printCommandLineResults(shown, result.Total)]

\* runCommandLine(args, ascending, descending), then the return of main().
runCommandLine ==
    /\ main # None
    /\ main.pc = "mode"
    /\ ~main.flags.interactive
    /\ Len(notation) > 0
    /\ IF main.flags.ascending /\ main.flags.descending
       THEN /\ main' = Exit(main, 1)
            /\ UNCHANGED <<notation, parsed, parseValues, rolled, rollValues>>
       ELSE processDiceExpression(notation, Exit(main, 1), Exit(main, 0))
    /\ UNCHANGED <<fancyDiceValues, loadErr, loaded, sample, gui, flagsIn>>

\* runInteractive up to its loop (main.go 140-168).
runInteractive ==
    /\ main # None
    /\ main.pc = "mode"
    /\ main.flags.interactive
    /\ main' = IF main.flags.ascending /\ main.flags.descending
               THEN Exit(main, 1)
               ELSE [main EXCEPT !.pc = "repl"]
    /\ UNCHANGED <<fancyDiceValues, notation, parsed, parseValues, rolled, rollValues,
                   loadErr, loaded, sample, gui, flagsIn>>

\* One pass of the loop of runInteractive that changes something: quit, exit or the
\* end of the input, or a line with a dice expression.
readLine ==
    /\ main # None
    /\ main.pc = "repl"
    /\ \/ /\ main' = Exit(main, 0)
          /\ UNCHANGED <<notation, parsed, parseValues, rolled, rollValues>>
       \/ \E toks \in MainNotations \ {<<>>} : processDiceExpression(toks, main, main)
    /\ UNCHANGED <<fancyDiceValues, loadErr, loaded, sample, gui, flagsIn>>

\* runGUI: gui.NewApp(myWindow), then the window runs.
runGUI ==
    /\ main # None
    /\ main.pc = "mode"
    /\ ~main.flags.interactive
    /\ Len(notation) = 0
    /\ main' = [main EXCEPT !.pc = "gui"]
    /\ gui' = NewApp
    /\ UNCHANGED <<fancyDiceValues, notation, parsed, parseValues, rolled, rollValues,
                   loadErr, loaded, sample, flagsIn>>

\* The roll button, or Enter in the entry holding the text of `toks`.
onRollButtonClicked ==
    /\ gui # None
    /\ \E toks \in MainNotations :
          LET text == TrimSpace(Expression(toks))
          IN  /\ notation' = toks
              /\ IF text = <<>>
                 THEN /\ gui' = showError(gui, Sprintf("Please enter dice notation (e.g. 2d6)", <<>>))
                      /\ UNCHANGED <<parsed, parseValues, rolled, rollValues>>
                 ELSE /\ parsed' = ParseDiceNotation(fancyDiceValues, text)
                      /\ parseValues' = ReadValues(fancyDiceValues, ParseKeys(toks))
                      /\ IF parsed'.err # Nil
                         THEN /\ gui' = showError(gui, Sprintf("Invalid dice notation: %v",
                                                               <<parsed'.err>>))
                              /\ rolled' = None
                              /\ rollValues' = None
                         ELSE \E result \in Roll(fancyDiceValues, parsed'.ds) :
                                  /\ rolled' = result
                                  /\ rollValues' = ReadValues(fancyDiceValues, RollKeys(parsed'.ds))
                                  /\ gui' \in updateResults(gui, result)
    /\ UNCHANGED <<fancyDiceValues, loadErr, loaded, sample, main, flagsIn>>

\* A sort item of the View menu.
menuSort ==
    /\ gui # None
    /\ \E order \in SortOrder : gui' \in setSortOrder(gui, order)
    /\ UNCHANGED <<fancyDiceValues, notation, parsed, parseValues, rolled, rollValues,
                   loadErr, loaded, sample, main, flagsIn>>

\* The Reset Display item of the View menu.
menuReset ==
    /\ gui # None
    /\ gui' = resetDisplay(gui)
    /\ UNCHANGED <<fancyDiceValues, notation, parsed, parseValues, rolled, rollValues,
                   loadErr, loaded, sample, main, flagsIn>>

NextMain ==
    \/ mainStart
    \/ runCommandLine
    \/ runInteractive
    \/ readLine
    \/ runGUI

SpecMain == InitMain /\ [][NextMain]_vars

\* The window that runGUI opened, in a run without flags and without arguments.
InitGui ==
    /\ fancyDiceValues = StandardFancyDiceValues
    /\ notation = <<>>
    /\ parsed = None
    /\ parseValues = None
    /\ rolled = None
    /\ rollValues = None
    /\ loadErr = None
    /\ loaded = None
    /\ sample = None
    /\ main = [pc |-> "gui", exit |-> <<>>, printed |-> None,
               flags |-> [ascending |-> FALSE, descending |-> FALSE, help |-> FALSE,
                          interactive |-> FALSE,
                          fancy |-> [given |-> FALSE, files |-> <<>>]]]
    /\ gui = NewApp
    /\ flagsIn = None

NextGui ==
    \/ onRollButtonClicked
    \/ menuSort
    \/ menuReset

SpecGui == InitGui /\ [][NextGui]_vars

---------------------------------------------------------------------------
(* The order of load, parse and roll in a run                              *)

LoadFailed == loadErr # None /\ loadErr # Nil

\* C26: in one run of the program, the custom definitions are loaded before any
\* notation is parsed or any die is rolled; if the load returns an error the program
\* exits with status 1 and neither parses nor rolls; no load happens after the first
\* parse or roll.
C26_LoadBeforeParseAndRoll ==
    /\ [](/\ LoadFailed => (main.exit = <<1>> /\ parsed = None /\ rolled = None)
          /\ (main.flags.fancy.given /\ (Parsed \/ Rolled)) =>
                (loaded = [files |-> main.flags.fancy.files] /\ loadErr = Nil))
    /\ [][(loaded' # loaded \/ loadErr' # loadErr \/ fancyDiceValues' # fancyDiceValues) =>
              (parsed = None /\ rolled = None /\ parsed' = None /\ rolled' = None)]_vars

\* The interactive mode rolled a die of a kind that only the loaded file defines.
C26_Witness ==
    /\ main.pc = "repl"
    /\ main.flags.fancy.given
    /\ loadErr = Nil
    /\ Rolled
    /\ Len(rolled.DieRolls) = 2
    /\ rolled.DieRolls[2].Type = <<"f", "1">>
    /\ rolled.DieRolls[2].FancyValue = <<"J">>

---------------------------------------------------------------------------
(* The sorting flags typed into the entry of the window                    *)

FlagA == <<"-", "a">>
FlagAscending == <<"-", "-", "a", "s", "c", "e", "n", "d", "i", "n", "g">>
FlagD == <<"-", "d">>
FlagDescending == <<"-", "-", "d", "e", "s", "c", "e", "n", "d", "i", "n", "g">>

\* The loop of parseFlagsFromInput over parts[i..]: what the function returns.
RECURSIVE flagLoop(_, _, _, _, _)
flagLoop(parts, i, cleanParts, ascending, descending) ==
    IF i > Len(parts)
    THEN [diceNotation |-> Join(cleanParts, <<" ">>), ascending |-> ascending,
          descending |-> descending, err |-> Nil]
    ELSE IF parts[i] \in {FlagA, FlagAscending}
    THEN IF descending
         THEN [diceNotation |-> <<>>, ascending |-> FALSE, descending |-> FALSE,
               err |-> Errorf("cannot specify both ascending and descending flags", <<>>)]
         ELSE flagLoop(parts, i + 1, cleanParts, TRUE, descending)
    ELSE IF parts[i] \in {FlagD, FlagDescending}
    THEN IF ascending
         THEN [diceNotation |-> <<>>, ascending |-> FALSE, descending |-> FALSE,
               err |-> Errorf("cannot specify both ascending and descending flags", <<>>)]
         ELSE flagLoop(parts, i + 1, cleanParts, ascending, TRUE)
    ELSE flagLoop(parts, i + 1, Append(cleanParts, parts[i]), ascending, descending)

\* The loop with the later of two opposite flags taking over instead of failing.
RECURSIVE flagLoopLastWins(_, _, _, _, _)
flagLoopLastWins(parts, i, cleanParts, ascending, descending) ==
    IF i > Len(parts)
    THEN [diceNotation |-> Join(cleanParts, <<" ">>), ascending |-> ascending,
          descending |-> descending, err |-> Nil]
    ELSE IF parts[i] \in {FlagA, FlagAscending}
    THEN flagLoopLastWins(parts, i + 1, cleanParts, TRUE, FALSE)
    ELSE IF parts[i] \in {FlagD, FlagDescending}
    THEN flagLoopLastWins(parts, i + 1, cleanParts, FALSE, TRUE)
    ELSE flagLoopLastWins(parts, i + 1, Append(cleanParts, parts[i]), ascending, descending)

parseFlagsFromInputLastWins(input) == flagLoopLastWins(Fields(input), 1, <<>>, FALSE, FALSE)

parseFlagsFromInput(input) == flagLoop(Fields(input), 1, <<>>, FALSE, FALSE)

\* The most words typed into the entry.
MaxWords == 3

\* The words typed: the four flags, a dice token, and a word that only starts like
\* a flag.
FlagWords == {FlagA, FlagAscending, FlagD, FlagDescending, <<"d", "2">>, <<"-", "a", "d">>}

\* The white space typed between two words, and around the text.
Gaps == {<<" ">>, <<" ", " ">>, <<"\t">>}
Pads == {<<>>, <<" ">>}

FlagInputs ==
    {[words |-> words, text |-> pad \o Join(words, gap) \o pad] :
        words \in UNION {[1..n -> FlagWords] : n \in 0..MaxWords}, gap \in Gaps, pad \in Pads}

InitFlags ==
    /\ fancyDiceValues = StandardFancyDiceValues
    /\ notation = <<>>
    /\ parsed = None
    /\ parseValues = None
    /\ rolled = None
    /\ rollValues = None
    /\ loadErr = None
    /\ loaded = None
    /\ sample = None
    /\ main = None
    /\ gui = None
    /\ flagsIn \in {[words |-> in.words, text |-> in.text, called |-> FALSE, out |-> None] :
                       in \in FlagInputs}

\* notation, ascending, descending, err := parseFlagsFromInput(input)
ParseFlags ==
    /\ ~flagsIn.called
    /\ flagsIn' = [flagsIn EXCEPT !.called = TRUE, !.out = parseFlagsFromInput(flagsIn.text)]
    /\ UNCHANGED <<fancyDiceValues, notation, parsed, parseValues, rolled, rollValues,
                   loadErr, loaded, sample, main, gui>>

NextFlags == ParseFlags

SpecFlags == InitFlags /\ [][NextFlags]_vars

\* What the words typed say.
IsAscendingFlag(w) == w \in {FlagA, FlagAscending}
IsDescendingFlag(w) == w \in {FlagD, FlagDescending}
IsNoFlag(w) == ~IsAscendingFlag(w) /\ ~IsDescendingFlag(w)
TypedAscending == \E i \in 1..Len(flagsIn.words) : IsAscendingFlag(flagsIn.words[i])
TypedDescending == \E i \in 1..Len(flagsIn.words) : IsDescendingFlag(flagsIn.words[i])

\* C27: parseFlagsFromInput returns an error if and only if the input holds both an
\* ascending flag (-a, --ascending) and a descending flag (-d, --descending), in
\* either order and at any positions; otherwise it returns the flags seen and the
\* other white-space separated words, in their order, joined by single spaces.
C27_FlagsFromInput ==
    (flagsIn # None /\ flagsIn.called) =>
        /\ (flagsIn.out.err # Nil) <=> (TypedAscending /\ TypedDescending)
        /\ flagsIn.out.err = Nil =>
              /\ flagsIn.out.ascending = TypedAscending
              /\ flagsIn.out.descending = TypedDescending
              /\ flagsIn.out.diceNotation = Join(SelectSeq(flagsIn.words, IsNoFlag), <<" ">>)

\* "d2  --descending  -ad" gives the descending flag and the notation "d2 -ad".
C27_Witness ==
    /\ flagsIn # None
    /\ flagsIn.called
    /\ flagsIn.words = << <<"d", "2">>, FlagDescending, <<"-", "a", "d">> >>
    /\ Len(flagsIn.text) > Len(Join(flagsIn.words, <<" ">>))
    /\ flagsIn.out.err = Nil
    /\ flagsIn.out.descending
    /\ ~flagsIn.out.ascending
    /\ flagsIn.out.diceNotation = <<"d", "2", " ", "-", "a", "d">>

---------------------------------------------------------------------------
(* The sorted print                                                        *)

\* The run printed the rolls of the last expression.
Printed == main # None /\ Rolled /\ "lines" \in DOMAIN main.printed

\* The value of a printed line: the face of a standard die, the score the registry
\* gives to the label of a symbolic die.
LineValue(line) ==
    IF line.Type[1] = "f" THEN ScoreOf(rollValues[line.Type], line.Text)
    ELSE Atoi(line.Text).n

\* How often a line is among the lines.
Times(lines, line) == Cardinality({i \in 1..Len(lines) : lines[i] = line})

\* C28: with --ascending (--descending) the printed rolls are a permutation of the
\* outcomes of the roll in non-decreasing (non-increasing) order of value, the face
\* of a standard die and the score of a symbolic die; the printed Total is the Total
\* of the roll, and the result of the roll keeps the typed order.
C28_SortedByValue ==
    Printed =>
        LET lines == main.printed.lines
            rolls == [i \in 1..Len(rolled.DieRolls) |-> RollLine(rolled.DieRolls[i])]
        IN  /\ Len(lines) = Len(rolls)
            /\ \A i \in 1..Len(lines) : Times(lines, lines[i]) = Times(rolls, lines[i])
            /\ main.flags.ascending =>
                  \A i \in 1..(Len(lines) - 1) : LineValue(lines[i]) <= LineValue(lines[i + 1])
            /\ main.flags.descending =>
                  \A i \in 1..(Len(lines) - 1) : LineValue(lines[i]) >= LineValue(lines[i + 1])
            /\ main.printed.total = Sprintf("Total: %d\n", <<rolled.Total>>)
            /\ rolled \in Roll(fancyDiceValues, parsed.ds)
            /\ Len(rolled.DieRolls) = Len(Typed)
            /\ \A i \in 1..Len(Typed) : rolled.DieRolls[i].Type = TypedLabel(Typed[i])

---------------------------------------------------------------------------
(* The shape of the registry                                               *)

\* Every key of a registry is "f<N>" for the N >= 1 entries it holds, and every
\* entry has a label.
WellKeyed(registry) ==
    \A k \in DOMAIN registry :
        /\ Len(registry[k]) >= 1
        /\ k = <<"f">> \o Itoa(Len(registry[k]))
        /\ \A e \in 1..Len(registry[k]) : registry[k][e].Name # <<>>

\* C29: after any sequence of successful and failed loads every registry key "f<N>"
\* maps to exactly N entries, N >= 1, each with a non-empty label; no step removes a
\* kind, so a kind that exists when a notation is parsed exists with the same
\* capacity N when it is rolled.
C29_RegistryShape ==
    /\ [](/\ WellKeyed(fancyDiceValues)
          /\ Rolled => \A k \in DOMAIN parseValues :
                           /\ Exists(rollValues, k)
                           /\ Len(rollValues[k]) = Len(parseValues[k]))
    /\ [][\A k \in DOMAIN fancyDiceValues :
              /\ Exists(fancyDiceValues', k)
              /\ Len(fancyDiceValues'[k]) = Len(fancyDiceValues[k])]_vars

\* A roll of a kind that a file gave before the parse, after a load that replaced
\* the built-in kind f2 and a load that failed.
C29_Witness ==
    /\ Rolled
    /\ LoadFailed
    /\ Exists(parseValues, <<"f", "1">>)
    /\ Exists(rollValues, <<"f", "1">>)
    /\ fancyDiceValues[<<"f", "2">>] # StandardFancyDiceValues[<<"f", "2">>]

---------------------------------------------------------------------------
(* The sort menu of the window                                             *)

\* The rows the window shows for rolls in the given order.
GridOf(dieRolls) == [grid |-> [i \in 1..Len(dieRolls) |-> RollLine(dieRolls[i])]]

ShowsMessage == "label" \in DOMAIN gui.resultsCard

\* C30: in the window with a sort menu, for any sequence of roll, error, reset and
\* sort events: lastResult is nil exactly while an error or the initial message is
\* shown, and setSortOrder then leaves the message and the empty total in place;
\* lastResult is the result as rolled, in the typed dice order, so dice order shows
\* the rolls in the typed order whatever the sort order was before, every sort order
\* shows a permutation of them, and the total shown is always that of the roll.
C30_SortMenu ==
    /\ [](/\ (gui.lastResult = None) <=> ShowsMessage
          /\ gui.lastResult # None =>
                /\ gui.lastResult = rolled
                /\ Len(rolled.DieRolls) = Len(Typed)
                /\ \A i \in 1..Len(Typed) : rolled.DieRolls[i].Type = TypedLabel(Typed[i])
                /\ gui.totalCard = NewLabel(Sprintf("Total: %d", <<rolled.Total>>))
                /\ Len(gui.resultsCard.grid) = Len(rolled.DieRolls)
                /\ \A i \in 1..Len(rolled.DieRolls) :
                      Times(gui.resultsCard.grid, RollLine(rolled.DieRolls[i]))
                          = Times(GridOf(rolled.DieRolls).grid, RollLine(rolled.DieRolls[i]))
                /\ gui.currentSort = SortDiceOrder => gui.resultsCard = GridOf(rolled.DieRolls))
    /\ [][gui'.currentSort # gui.currentSort =>
              /\ gui'.lastResult = gui.lastResult
              /\ gui.lastResult = None =>
                    (gui'.resultsCard = gui.resultsCard /\ gui'.totalCard = gui.totalCard)]_vars

\* The sort order is descending and the window shows the second die of the stored
\* result above the first.
C30_Witness ==
    /\ gui.currentSort = SortDescending
    /\ gui.lastResult # None
    /\ Len(rolled.DieRolls) = 2
    /\ rolled.DieRolls[1].Result < rolled.DieRolls[2].Result
    /\ gui.resultsCard = GridOf(<<rolled.DieRolls[2], rolled.DieRolls[1]>>)
    /\ gui.resultsCard # GridOf(rolled.DieRolls)

====
